---- MODULE Spec2Model ----
(***************************************************************************)
(* Reminder lifecycle engine of onmymind: the reminder service and its     *)
(* SQLite store (reminder/sqlite.go), the scheduler (reminder/scheduler.go)*)
(* and the recurrence computation.                                         *)
(*                                                                         *)
(* Time is counted in minutes from 2024-01-01 00:00 UTC (a Monday); every  *)
(* location is UTC.  A string is a sequence of lexemes (words, numerals,   *)
(* ":" and ","), so that splitting and scanning are computed, not assumed. *)
(***************************************************************************)
EXTENDS Integers, Sequences, FiniteSets, Bags, TLC

\* now          time.Now(), in minutes
\* tickDue      ticker.C holds a tick that run has not received yet
\* reminders    the table reminders: id -> row
\* nextID       the next id CreateReminder hands out
\* userCalls    the number of calls of the service that succeeded
\* logs         the table reminder_logs, a bag of rows
\* batch        the rows of the tick's query the loop has not reached yet
\* escalations  the sleeping escalation goroutines, a bag of [id, wakeAt]
\* delivered    per id, the primary messages bot.Send accepted
\* calls        per id, the escalation messages bot.Send accepted
\* lastStep     what the scheduler's latest step did
\* calc         arguments and result of a call of calculateNextOccurrence
\* inflight     per caller, the call of the service it is in: the operation,
\*              the row GetReminder returned to it, and the call's result
\* listed       arguments and result of the latest call of List
\* shutdown     the scheduler's stopChan, whether run has returned, and where
\*              the caller of Stop is
\* itemStore    the tables items and deleted (per text, the number of rows),
\*              the chat's entries of lastPulled and lastDeleted, and the
\*              reply to the chat's latest command
VARIABLES now, tickDue, reminders, nextID, userCalls, logs, batch,
          escalations, delivered, calls, lastStep, calc, inflight, listed, shutdown,
          itemStore

vars == <<now, tickDue, reminders, nextID, userCalls, logs, batch,
          escalations, delivered, calls, lastStep, calc, inflight, listed, shutdown,
          itemStore>>

(***************************************************************************)
(* Bounds of the model.                                                    *)
(***************************************************************************)
MaxTime == 3
MaxCreates == 2
MaxCalls == 3
MaxBaseDay == 31
MaxNowDay == 40
MaxCopies == 2
MaxLoopBaseDay == 3
MaxLoopNowDay == 10
MaxLoopSteps == 20
MaxUndoWait == 3

(***************************************************************************)
(* Calendar: the part of Go's time package the code relies on.             *)
(***************************************************************************)
EpochYear == 2024
MinutesPerDay == 1440
\* time.Time{}: 0001-01-01 00:00 UTC, 738885 days before the epoch.
ZeroTime == -1063994400

IsZero(t) == t = ZeroTime

Before(t, u) == t < u

IsLeap(y) == (y % 4 = 0 /\ y % 100 # 0) \/ y % 400 = 0

DaysInYear(y) == IF IsLeap(y) THEN 366 ELSE 365

DaysIn(y, m) ==
    IF m = 2 THEN (IF IsLeap(y) THEN 29 ELSE 28)
    ELSE IF m \in {4, 6, 9, 11} THEN 30 ELSE 31

RECURSIVE DaysBeforeYear(_)
DaysBeforeYear(y) ==
    IF y <= EpochYear THEN 0 ELSE DaysBeforeYear(y - 1) + DaysInYear(y - 1)

RECURSIVE DaysBeforeMonth(_, _)
DaysBeforeMonth(y, m) ==
    IF m <= 1 THEN 0 ELSE DaysBeforeMonth(y, m - 1) + DaysIn(y, m - 1)

\* time.Date(y, m, d, hour, minute, 0, 0, UTC) with hm = 60*hour + minute:
\* the month is normalised into the year first, the day is then an offset
\* from the first of that month (day 0 is the last day of the month before).
Date(y, m, d, hm) ==
    LET y2 == y + ((m - 1) \div 12)
        m2 == ((m - 1) % 12) + 1
    IN (DaysBeforeYear(y2) + DaysBeforeMonth(y2, m2) + d - 1) * MinutesPerDay + hm

DayIndex(t) == t \div MinutesPerDay

Clock(t) == t % MinutesPerDay

RECURSIVE YearFrom(_, _)
YearFrom(n, y) == IF n < DaysInYear(y) THEN y ELSE YearFrom(n - DaysInYear(y), y + 1)

RECURSIVE YearDayFrom(_, _)
YearDayFrom(n, y) == IF n < DaysInYear(y) THEN n ELSE YearDayFrom(n - DaysInYear(y), y + 1)

RECURSIVE MonthFrom(_, _, _)
MonthFrom(n, y, m) == IF n < DaysIn(y, m) THEN m ELSE MonthFrom(n - DaysIn(y, m), y, m + 1)

RECURSIVE MonthDayFrom(_, _, _)
MonthDayFrom(n, y, m) == IF n < DaysIn(y, m) THEN n + 1 ELSE MonthDayFrom(n - DaysIn(y, m), y, m + 1)

Year(t) == YearFrom(DayIndex(t), EpochYear)

Month(t) == MonthFrom(YearDayFrom(DayIndex(t), EpochYear), Year(t), 1)

Day(t) == MonthDayFrom(YearDayFrom(DayIndex(t), EpochYear), Year(t), 1)

\* time.Weekday: Sunday = 0 ... Saturday = 6; 2024-01-01 is a Monday.
Weekday(t) == (DayIndex(t) + 1) % 7

Sunday == 0
Monday == 1
Tuesday == 2
Wednesday == 3
Thursday == 4
Friday == 5
Saturday == 6

\* t.AddDate(0, months, days)
AddDate(t, months, days) == Date(Year(t), Month(t) + months, Day(t) + days, Clock(t))

(***************************************************************************)
(* Strings as sequences of lexemes.                                        *)
(***************************************************************************)
RECURSIVE IndexFrom(_, _, _)
IndexFrom(s, sep, i) ==
    IF i > Len(s) THEN 0
    ELSE IF s[i] = sep THEN i ELSE IndexFrom(s, sep, i + 1)

\* strings.SplitN(s, sep, 2)
SplitN2(s, sep) ==
    LET i == IndexFrom(s, sep, 1)
    IN IF i = 0 THEN <<s>>
       ELSE <<SubSeq(s, 1, i - 1), SubSeq(s, i + 1, Len(s))>>

\* strings.Split(s, sep)
RECURSIVE Split(_, _)
Split(s, sep) ==
    LET i == IndexFrom(s, sep, 1)
    IN IF i = 0 THEN <<s>>
       ELSE <<SubSeq(s, 1, i - 1)>> \o Split(SubSeq(s, i + 1, Len(s)), sep)

Numerals == {"0", "1", "7", "15", "28", "29", "30", "31", "45"}

NumVal(x) ==
    CASE x = "0" -> 0 [] x = "1" -> 1 [] x = "7" -> 7 [] x = "15" -> 15
      [] x = "28" -> 28 [] x = "29" -> 29 [] x = "30" -> 30 [] x = "31" -> 31
      [] x = "45" -> 45

\* Numerals that do not fit a 64-bit integer.
OverflowNumerals == {"99999999999999999999"}

\* fmt.Sscanf(s, "%d", &v): the leading numeral, if any; what follows it is
\* not looked at.  Without a leading numeral, or with one that does not fit
\* the integer (OverflowNumerals), the scan fails and v keeps its value, 0.
ScanInt(s) ==
    IF Len(s) >= 1 /\ s[1] \in Numerals
    THEN [ok |-> TRUE, val |-> NumVal(s[1])]
    ELSE [ok |-> FALSE, val |-> 0]

ToLowerLex(x) ==
    CASE x = "Sunday" -> "sunday" [] x = "Friday" -> "friday"
      [] x = "Monday" -> "monday" [] x = "Wednesday" -> "wednesday"
      [] x = "Every" -> "every"
      [] x = "America/New_York" -> "america/new_york"
      [] x = "Europe/London" -> "europe/london"
      [] x = "Asia/Tokyo" -> "asia/tokyo"
      [] x = "Invalid/Zone" -> "invalid/zone"
      [] x = "New York" -> "new york"
      [] x = "UTC" -> "utc"
      [] OTHER -> x

\* strings.ToLower
ToLower(s) == [i \in 1..Len(s) |-> ToLowerLex(s[i])]

\* strings.TrimSpace
RECURSIVE TrimSpace(_)
TrimSpace(s) ==
    IF s # <<>> /\ s[1] = " " THEN TrimSpace(Tail(s))
    ELSE IF s # <<>> /\ s[Len(s)] = " " THEN TrimSpace(SubSeq(s, 1, Len(s) - 1))
    ELSE s

(***************************************************************************)
(* Recurrence: scheduler.go, calculateNextOccurrence and its helpers.      *)
(***************************************************************************)
\* A variant of parseWeekday without the default: a name that is no weekday
\* gives a value that is no weekday.
parseWeekdayWithoutDefault(day) ==
    LET d == ToLower(day)
    IN CASE d = <<"sunday">> -> Sunday
         [] d = <<"monday">> -> Monday
         [] d = <<"tuesday">> -> Tuesday
         [] d = <<"wednesday">> -> Wednesday
         [] d = <<"thursday">> -> Thursday
         [] d = <<"friday">> -> Friday
         [] d = <<"saturday">> -> Saturday
         [] OTHER -> Saturday + 1

parseWeekday(day) ==
    LET d == ToLower(day)
    IN CASE d = <<"sunday">> -> Sunday
         [] d = <<"monday">> -> Monday
         [] d = <<"tuesday">> -> Tuesday
         [] d = <<"wednesday">> -> Wednesday
         [] d = <<"thursday">> -> Thursday
         [] d = <<"friday">> -> Friday
         [] d = <<"saturday">> -> Saturday
         [] OTHER -> Sunday

parseMonthDay(daySpec) ==
    LET day == ScanInt(daySpec).val
    IN IF day < 1 THEN 1 ELSE IF day > 28 THEN 28 ELSE day

\* A variant of the daily loop that, when the day after the base is past,
\* takes the day after now with now's time of day.
DailyLoopFromNow(next, nowT) ==
    IF Before(next, nowT) THEN AddDate(nowT, 0, 1) ELSE next

RECURSIVE DailyLoop(_, _)
DailyLoop(next, nowT) ==
    IF Before(next, nowT) THEN DailyLoop(AddDate(next, 0, 1), nowT) ELSE next

RECURSIVE WeekdayLoop(_, _)
WeekdayLoop(next, nowT) ==
    IF Before(next, nowT) \/ Weekday(next) = Saturday \/ Weekday(next) = Sunday
    THEN WeekdayLoop(AddDate(next, 0, 1), nowT) ELSE next

RECURSIVE WeeklyLoop(_, _, _)
WeeklyLoop(next, nowT, weekdays) ==
    IF Before(next, nowT) \/ Weekday(next) \notin weekdays
    THEN WeeklyLoop(AddDate(next, 0, 1), nowT, weekdays) ELSE next

RECURSIVE MonthlyLoop(_, _)
MonthlyLoop(next, nowT) ==
    IF Before(next, nowT) THEN MonthlyLoop(AddDate(next, 1, 0), nowT) ELSE next

\* A variant of the monthly pin that takes the day in the month of the base.
MonthlyPinInBaseMonth(next, base, daySpec) ==
    CASE daySpec = <<"first">> -> Date(Year(base), Month(base), 1, Clock(base))
      [] daySpec = <<"last">> -> Date(Year(base), Month(base) + 1, 0, Clock(base))
      [] OTHER -> Date(Year(base), Month(base), parseMonthDay(daySpec), Clock(base))

MonthlyPin(next, base, daySpec) ==
    CASE daySpec = <<"first">> -> Date(Year(next), Month(next), 1, Clock(base))
      [] daySpec = <<"last">> -> Date(Year(next), Month(next) + 1, 0, Clock(base))
      [] OTHER -> Date(Year(next), Month(next), parseMonthDay(daySpec), Clock(base))

\* calculateNextOccurrence(r) with base = r.DueTime, nowT = time.Now()
calculateNextOccurrence(pattern, base, nowT) ==
    LET parts == SplitN2(pattern, ":")
    IN IF Len(parts) # 2 /\ parts[1] # <<"daily">> /\ parts[1] # <<"weekday">>
       THEN [err |-> TRUE, next |-> ZeroTime]
       ELSE CASE parts[1] = <<"daily">> ->
                   [err |-> FALSE, next |-> DailyLoop(AddDate(base, 0, 1), nowT)]
              [] parts[1] = <<"weekday">> ->
                   [err |-> FALSE, next |-> WeekdayLoop(AddDate(base, 0, 1), nowT)]
              [] parts[1] = <<"weekly">> ->
                   LET days == Split(parts[2], ",")
                       weekdays == {parseWeekday(days[i]) : i \in 1..Len(days)}
                   IN [err |-> FALSE, next |-> WeeklyLoop(AddDate(base, 0, 1), nowT, weekdays)]
              [] parts[1] = <<"monthly">> ->
                   [err |-> FALSE,
                    next |-> MonthlyPin(MonthlyLoop(AddDate(base, 1, 0), nowT), base, parts[2])]
              [] OTHER -> [err |-> TRUE, next |-> ZeroTime]

(***************************************************************************)
(* Types (types.go).                                                       *)
(***************************************************************************)
StatusPending == "pending"
StatusCompleted == "completed"
StatusCancelled == "cancelled"
StatusUnset == ""

NotificationTelegramMessage == "telegram_message"
NotificationTelegramCall == "telegram_call"

NoPattern == <<>>

MaxID == 2 * MaxCreates

IDs == 1..MaxID

\* ListFilter: a nil pointer is a cleared has-flag.
ListFilter(hasStatus, status, hasTo, toTime) ==
    [hasStatus |-> hasStatus, status |-> status,
     hasPriority |-> FALSE, priority |-> FALSE,
     hasFrom |-> FALSE, fromTime |-> 0,
     hasTo |-> hasTo, toTime |-> toTime]

(***************************************************************************)
(* SQLiteStore (sqlite.go).  rs is the reminders table: a function from    *)
(* the ids present to their rows.                                          *)
(***************************************************************************)
\* CreateReminder: the id is a fresh UUID, here the next unused number.
CreateReminder(rs, nid, r) == (nid :> [r EXCEPT !.id = nid]) @@ rs

\* GetReminder: found is FALSE for sql.ErrNoRows.
GetReminder(rs, id) == [found |-> id \in DOMAIN rs]

\* A variant of the WHERE clause whose due-time bounds are exclusive.
MatchesFilterExclusive(r, filter) ==
    /\ filter.hasStatus => r.status = filter.status
    /\ filter.hasPriority => r.priority = filter.priority
    /\ filter.hasFrom => r.dueTime > filter.fromTime
    /\ filter.hasTo => r.dueTime < filter.toTime

\* The WHERE clause of ListReminders without its user_id condition.
MatchesFilter(r, filter) ==
    /\ filter.hasStatus => r.status = filter.status
    /\ filter.hasPriority => r.priority = filter.priority
    /\ filter.hasFrom => r.dueTime >= filter.fromTime
    /\ filter.hasTo => r.dueTime <= filter.toTime

\* ORDER BY due_time ASC; rows with equal due_time come in insertion order.
RECURSIVE OrderByDueTime(_, _)
OrderByDueTime(rs, ids) ==
    IF ids = {} THEN <<>>
    ELSE LET first == CHOOSE i \in ids : \A j \in ids :
                          \/ rs[i].dueTime < rs[j].dueTime
                          \/ rs[i].dueTime = rs[j].dueTime /\ i <= j
         IN <<rs[first]>> \o OrderByDueTime(rs, ids \ {first})

\* ListReminders: the user_id condition is always part of the query.
ListReminders(rs, userID, filter) ==
    OrderByDueTime(rs, {i \in DOMAIN rs : rs[i].userID = userID /\ MatchesFilter(rs[i], filter)})

\* A variant of UpdateReminder that inserts the row when it is not there.
UpdateReminderOrInsert(rs, r) ==
    [found |-> TRUE,
     rs |-> [i \in DOMAIN rs \cup {r.id} |-> IF i = r.id THEN r ELSE rs[i]]]

\* UpdateReminder: found is FALSE when no row was affected.
UpdateReminder(rs, r) ==
    IF r.id \in DOMAIN rs
    THEN [found |-> TRUE, rs |-> [rs EXCEPT ![r.id] = r]]
    ELSE [found |-> FALSE, rs |-> rs]

\* DeleteReminder
DeleteReminder(rs, id) ==
    IF id \in DOMAIN rs
    THEN [found |-> TRUE, rs |-> [i \in DOMAIN rs \ {id} |-> rs[i]]]
    ELSE [found |-> FALSE, rs |-> rs]

\* CreateNotificationLog
CreateNotificationLog(lg, id, type, status) ==
    lg (+) SetToBag({[reminderID |-> id, notificationType |-> type, status |-> status]})

(***************************************************************************)
(* service (sqlite.go, second half).  storeFails stands for an error of    *)
(* the store's write.                                                      *)
(***************************************************************************)
\* The validation shared by Create and Update.
Invalid(r, nowT) ==
    \/ r.title = ""
    \/ IsZero(r.dueTime)
    \/ Before(r.dueTime, nowT)

Create(rs, nid, r, nowT, storeFails) ==
    IF Invalid(r, nowT) \/ storeFails
    THEN [err |-> TRUE, rs |-> rs, nid |-> nid]
    ELSE [err |-> FALSE,
          rs |-> CreateReminder(rs, nid,
                    [r EXCEPT !.status = IF r.status = StatusUnset THEN StatusPending ELSE r.status]),
          nid |-> nid + 1]

Update(rs, r, nowT, storeFails) ==
    IF Invalid(r, nowT) \/ storeFails
    THEN [err |-> TRUE, rs |-> rs]
    ELSE LET u == UpdateReminder(rs, r) IN [err |-> ~u.found, rs |-> u.rs]

SetStatus(rs, id, status, storeFails) ==
    IF ~GetReminder(rs, id).found \/ storeFails
    THEN [err |-> TRUE, rs |-> rs]
    ELSE LET u == UpdateReminder(rs, [rs[id] EXCEPT !.status = status])
         IN [err |-> ~u.found, rs |-> u.rs]

Complete(rs, id, storeFails) == SetStatus(rs, id, StatusCompleted, storeFails)

Cancel(rs, id, storeFails) == SetStatus(rs, id, StatusCancelled, storeFails)

Delete(rs, id) == LET d == DeleteReminder(rs, id) IN [err |-> ~d.found, rs |-> d.rs]

(***************************************************************************)
(* Inputs of the calls.                                                    *)
(***************************************************************************)
UserIDs == {<<>>, <<"7">>}

NumericUserIDs == {<<"7">>}

Titles == {"", "t"}

\* Due times a caller passes: none, a minute ago, now, in one or two minutes.
DueTimes(nowT) == {ZeroTime, nowT - 1, nowT, nowT + 1, nowT + 2}

\* Recurrence pattern and priority flag of the reminders created: one-time,
\* one-time with -call, daily, and a pattern the scheduler cannot compute.
Kinds == {<<NoPattern, FALSE>>, <<NoPattern, TRUE>>, <<<<"daily">>, FALSE>>,
          <<<<"bogus">>, TRUE>>}

\* parseUserID: fmt.Sscanf(userID, "%d", &id)
parseUserID(userID) == ScanInt(userID)

EscalationDelay == 2

TickLookahead == 1

NoCalc == [phase |-> "off", command |-> <<>>, pattern |-> NoPattern, base |-> 0, now |-> 0,
           err |-> FALSE, next |-> 0, title |-> <<>>, priority |-> FALSE]

\* The scheduler after Start: stopChan is open, run is in its loop, Stop has
\* not been called; inTick records whether Stop was called during a tick.
Started == [stopChan |-> "open", run |-> "looping", stop |-> "idle", inTick |-> FALSE]

\* The texts the chat adds.
Texts == {"a", "b"}

NoText == ""

\* The item store after initDB, before any command: both tables empty, no
\* entry of the chat in lastPulled or lastDeleted.  atDelete keeps what the
\* tables held when the latest /delete began, round how far the chat is in
\* a sequence /pull, /delete, /undo with no other command between.
NoItems == [items |-> [t \in Texts |-> 0], deleted |-> [t \in Texts |-> 0],
            lastPulled |-> NoText, lastDeleted |-> <<>>, reply |-> "",
            round |-> "none", atDelete |-> <<>>]

\* The callers whose calls of the service run concurrently.
Callers == {1, 2}

\* A call of the service by a caller: op is the operation, id its argument,
\* pc where the call is ("idle": not begun, "read": GetReminder has returned,
\* "done": returned), row what GetReminder returned (<<>> or <<r>>), res the
\* result ("ok", "notfound", "invalid").
Call(op, id, pc, row, res) == [op |-> op, id |-> id, pc |-> pc, row |-> row, res |-> res]

Idle == Call("none", 0, "idle", <<>>, "none")

NoCalls == [c \in Callers |-> Idle]

\* No call of List yet.
NoList == [asked |-> FALSE, userID |-> <<>>, filter |-> ListFilter(FALSE, StatusPending, FALSE, 0),
           rows |-> <<>>]

\* What the latest step of the scheduler was and how it ended; pre is the
\* stored status the step found ("none": no such reminder).
Step(op, id, pre, send, rec) ==
    [op |-> op, id |-> id, pre |-> pre, send |-> send, rec |-> rec]

\* The latest step was a call of a handler or the passing of a minute.
NoStep == Step("none", 0, "none", "none", "none")

StatusOf(rs, id) == IF id \in DOMAIN rs THEN rs[id].status ELSE "none"

Init ==
    /\ now = 0
    /\ tickDue = FALSE
    /\ reminders = <<>>
    /\ nextID = 1
    /\ userCalls = 0
    /\ logs = EmptyBag
    /\ batch = <<>>
    /\ escalations = EmptyBag
    /\ delivered = [i \in IDs |-> 0]
    /\ calls = [i \in IDs |-> 0]
    /\ lastStep = NoStep
    /\ calc = NoCalc
    /\ inflight = NoCalls
    /\ listed = NoList
    /\ shutdown = Started
    /\ itemStore = NoItems

(***************************************************************************)
(* Calls of the service by the command handlers of parser.go.              *)
(***************************************************************************)
\* service.Create, as HandleRemindMe and handleRecurringReminder call it.
CallCreate(userID, title, due, pattern, priority, status) ==
    LET r == [id |-> 0, userID |-> userID, title |-> title, dueTime |-> due,
              recurrencePattern |-> pattern, priority |-> priority, status |-> status]
        c == Create(reminders, nextID, r, now, FALSE)
    IN /\ userCalls < MaxCalls
       /\ nextID <= MaxCreates
       /\ reminders' = c.rs
       /\ nextID' = c.nid
       /\ userCalls' = IF c.err THEN userCalls ELSE userCalls + 1
       /\ lastStep' = NoStep
       /\ UNCHANGED <<now, tickDue, logs, batch, escalations, delivered, calls, calc, inflight, listed, shutdown, itemStore>>

\* service.Update of a reminder the caller read before, with a new title and
\* a new due time.
CallUpdate(id, title, due) ==
    LET old == IF id \in DOMAIN reminders THEN reminders[id]
               ELSE [id |-> id, userID |-> <<"7">>, title |-> title, dueTime |-> due,
                     recurrencePattern |-> NoPattern, priority |-> FALSE,
                     status |-> StatusPending]
        r == [old EXCEPT !.title = title, !.dueTime = due]
        u == Update(reminders, r, now, FALSE)
    IN /\ userCalls < MaxCalls
       /\ reminders' = u.rs
       /\ userCalls' = IF u.err THEN userCalls ELSE userCalls + 1
       /\ lastStep' = NoStep
       /\ UNCHANGED <<now, tickDue, nextID, logs, batch, escalations,
                      delivered, calls, calc, inflight, listed, shutdown, itemStore>>

\* HandleComplete: service.Complete(id)
CallComplete(id) ==
    LET c == Complete(reminders, id, FALSE)
    IN /\ userCalls < MaxCalls
       /\ reminders' = c.rs
       /\ userCalls' = IF c.err THEN userCalls ELSE userCalls + 1
       /\ lastStep' = NoStep
       /\ UNCHANGED <<now, tickDue, nextID, logs, batch, escalations,
                      delivered, calls, calc, inflight, listed, shutdown, itemStore>>

\* service.Cancel(id)
CallCancel(id) ==
    LET c == Cancel(reminders, id, FALSE)
    IN /\ userCalls < MaxCalls
       /\ reminders' = c.rs
       /\ userCalls' = IF c.err THEN userCalls ELSE userCalls + 1
       /\ lastStep' = NoStep
       /\ UNCHANGED <<now, tickDue, nextID, logs, batch, escalations,
                      delivered, calls, calc, inflight, listed, shutdown, itemStore>>

\* HandleDelete: service.Delete(id)
CallDelete(id) ==
    LET d == Delete(reminders, id)
    IN /\ userCalls < MaxCalls
       /\ reminders' = d.rs
       /\ userCalls' = IF d.err THEN userCalls ELSE userCalls + 1
       /\ lastStep' = NoStep
       /\ UNCHANGED <<now, tickDue, nextID, logs, batch, escalations,
                      delivered, calls, calc, inflight, listed, shutdown, itemStore>>

\* A minute passes; the ticker of Scheduler.run delivers a tick.
Advance ==
    /\ now < MaxTime
    /\ now' = now + 1
    /\ tickDue' = TRUE
    /\ lastStep' = NoStep
    /\ UNCHANGED <<reminders, nextID, userCalls, logs, batch, escalations, delivered,
                   calls, calc, inflight, listed, shutdown, itemStore>>

(***************************************************************************)
(* Scheduler (scheduler.go).                                               *)
(***************************************************************************)
\* The injected failures of one step: the notifier's Send and the store's
\* writes to the reminders table (UpdateReminder inside Complete,
\* CreateReminder).  The insert of a log row is taken to succeed.
Faults == [send : BOOLEAN, update : BOOLEAN, create : BOOLEAN]

NoFaults == {[send |-> FALSE, update |-> FALSE, create |-> FALSE]}

\* checkReminders, lines 65-68: the filter of the tick's query.
TickFilter(nowT) == ListFilter(TRUE, StatusPending, TRUE, nowT + TickLookahead)

\* checkReminders, lines 63-75: the query of a tick; the rows are kept as the
\* snapshot the loop then works through.
TickQuery(list) ==
    /\ tickDue
    /\ batch = <<>>
    /\ batch' = list
    /\ tickDue' = FALSE
    /\ lastStep' = Step("Query", 0, "none", "none", "none")
    /\ UNCHANGED <<now, reminders, nextID, userCalls, logs, escalations, delivered,
                   calls, calc, inflight, listed, shutdown, itemStore>>

\* s.service.List("", filter) as wired in main: service.List over SQLiteStore.
checkReminders == TickQuery(ListReminders(reminders, <<>>, TickFilter(now)))

\* The query as the scheduler's comment "We'll check all users' reminders"
\* takes it to be: the rows of every user that pass the filter.
ListAllUsers(rs, filter) ==
    OrderByDueTime(rs, {i \in DOMAIN rs : MatchesFilter(rs[i], filter)})

checkRemindersAllUsers == TickQuery(ListAllUsers(reminders, TickFilter(now)))

\* sendNotification, lines 103-124: "baduser" is the parseUserID error, "fail"
\* the error of bot.Send.
sendNotification(r, f) ==
    IF ~parseUserID(r.userID).ok THEN "baduser"
    ELSE IF f.send THEN "fail"
    ELSE "ok"

\* A variant of scheduleNextRecurrence that marks the occurrence completed
\* before it computes the next one.
scheduleNextRecurrenceCompletingFirst(rs, nid, r, nowT, f) ==
    LET n == calculateNextOccurrence(r.recurrencePattern, r.dueTime, nowT)
        nextReminder == [id |-> 0, userID |-> r.userID, title |-> r.title,
                         dueTime |-> n.next, recurrencePattern |-> r.recurrencePattern,
                         priority |-> r.priority, status |-> StatusPending]
        c == Complete(rs, r.id, f.update)
        k == Create(c.rs, nid, nextReminder, nowT, f.create)
    IN IF c.err THEN [rec |-> "completeErr", rs |-> rs, nid |-> nid]
       ELSE IF n.err
            THEN [rec |-> "calcErr", rs |-> c.rs, nid |-> nid]
       ELSE IF k.err
            THEN [rec |-> "createErr", rs |-> c.rs, nid |-> nid]
       ELSE [rec |-> "recurred", rs |-> k.rs, nid |-> k.nid]

\* A variant of scheduleNextRecurrence that takes the completion back when
\* the next reminder cannot be created.
scheduleNextRecurrenceRollingBack(rs, nid, r, nowT, f) ==
    LET n == calculateNextOccurrence(r.recurrencePattern, r.dueTime, nowT)
        nextReminder == [id |-> 0, userID |-> r.userID, title |-> r.title,
                         dueTime |-> n.next, recurrencePattern |-> r.recurrencePattern,
                         priority |-> r.priority, status |-> StatusPending]
        c == Complete(rs, r.id, f.update)
        k == Create(c.rs, nid, nextReminder, nowT, f.create)
    IN IF n.err THEN [rec |-> "calcErr", rs |-> rs, nid |-> nid]
       ELSE IF c.err
            THEN [rec |-> "completeErr", rs |-> rs, nid |-> nid]
       ELSE IF k.err
            THEN [rec |-> "createErr", rs |-> rs, nid |-> nid]
       ELSE [rec |-> "recurred", rs |-> k.rs, nid |-> k.nid]

\* A variant of scheduleNextRecurrence that moves the occurrence itself to
\* the next due time instead of creating a new row.
scheduleNextRecurrenceInPlace(rs, nid, r, nowT, f) ==
    LET n == calculateNextOccurrence(r.recurrencePattern, r.dueTime, nowT)
        c == Complete(rs, r.id, f.update)
    IN IF n.err THEN [rec |-> "calcErr", rs |-> rs, nid |-> nid]
       ELSE IF c.err
            THEN [rec |-> "completeErr", rs |-> rs, nid |-> nid]
       ELSE IF f.create
            THEN [rec |-> "createErr", rs |-> c.rs, nid |-> nid]
       ELSE [rec |-> "recurred",
             rs |-> [c.rs EXCEPT ![r.id].dueTime = n.next, ![r.id].status = StatusPending],
             nid |-> nid]

\* A variant of scheduleNextRecurrence that creates the next reminder also
\* when the fired one could not be marked completed.
scheduleNextRecurrenceIgnoringComplete(rs, nid, r, nowT, f) ==
    LET n == calculateNextOccurrence(r.recurrencePattern, r.dueTime, nowT)
        nextReminder == [id |-> 0, userID |-> r.userID, title |-> r.title,
                         dueTime |-> n.next, recurrencePattern |-> r.recurrencePattern,
                         priority |-> r.priority, status |-> StatusPending]
        c == Complete(rs, r.id, f.update)
        k == Create(c.rs, nid, nextReminder, nowT, f.create)
    IN IF n.err THEN [rec |-> "calcErr", rs |-> rs, nid |-> nid]
       ELSE IF k.err
            THEN [rec |-> "createErr", rs |-> c.rs, nid |-> nid]
       ELSE [rec |-> "recurred", rs |-> k.rs, nid |-> k.nid]

\* scheduleNextRecurrence, lines 162-188
scheduleNextRecurrence(rs, nid, r, nowT, f) ==
    LET n == calculateNextOccurrence(r.recurrencePattern, r.dueTime, nowT)
        nextReminder == [id |-> 0, userID |-> r.userID, title |-> r.title,
                         dueTime |-> n.next, recurrencePattern |-> r.recurrencePattern,
                         priority |-> r.priority, status |-> StatusPending]
        c == Complete(rs, r.id, f.update)
        k == Create(c.rs, nid, nextReminder, nowT, f.create)
    IN IF n.err THEN [rec |-> "calcErr", rs |-> rs, nid |-> nid]
       ELSE IF c.err
            THEN [rec |-> "completeErr", rs |-> rs, nid |-> nid]
       ELSE IF k.err
            THEN [rec |-> "createErr", rs |-> c.rs, nid |-> nid]
       ELSE [rec |-> "recurred", rs |-> k.rs, nid |-> k.nid]

\* checkReminders, lines 94-99: a one-time reminder is marked completed.
completeOneTime(rs, nid, r, f) ==
    LET c == Complete(rs, r.id, f.update)
    IN IF c.err
       THEN [rec |-> "completeErr", rs |-> rs, nid |-> nid]
       ELSE [rec |-> "completed", rs |-> c.rs, nid |-> nid]

\* checkReminders, lines 89-99: what follows a successful send.
afterSend(rs, nid, r, nowT, f) ==
    IF r.recurrencePattern # NoPattern
    THEN scheduleNextRecurrence(rs, nid, r, nowT, f)
    ELSE completeOneTime(rs, nid, r, f)

\* A variant of the loop's body without the continue after a failed send.
handleRowWithoutContinue(rs, nid, r, nowT, f) ==
    LET sent == IF Before(nowT, r.dueTime) THEN "none" ELSE sendNotification(r, f)
        a == afterSend(rs, nid, r, nowT, f)
    IN IF sent # "none"
       THEN [sent |-> sent, rec |-> a.rec, rs |-> a.rs, nid |-> a.nid]
       ELSE [sent |-> sent, rec |-> "none", rs |-> rs, nid |-> nid]

\* A variant of the loop's body without the test of the row's due time.
handleRowWithoutDueCheck(rs, nid, r, nowT, f) ==
    LET sent == sendNotification(r, f)
        a == afterSend(rs, nid, r, nowT, f)
    IN IF sent = "ok"
       THEN [sent |-> sent, rec |-> a.rec, rs |-> a.rs, nid |-> a.nid]
       ELSE [sent |-> sent, rec |-> "none", rs |-> rs, nid |-> nid]

\* checkReminders, lines 78-99: the body of the loop for the row r; a row
\* that is not due is skipped, a failed send leaves the row to the next tick.
handleRow(rs, nid, r, nowT, f) ==
    LET sent == IF Before(nowT, r.dueTime) THEN "none" ELSE sendNotification(r, f)
        a == afterSend(rs, nid, r, nowT, f)
    IN IF sent = "ok"
       THEN [sent |-> sent, rec |-> a.rec, rs |-> a.rs, nid |-> a.nid]
       ELSE [sent |-> sent, rec |-> "none", rs |-> rs, nid |-> nid]

\* A variant of the loop that returns from checkReminders when the row's
\* notification could not be sent.
ProcessNextReturningOnError(f) ==
    /\ batch # <<>>
    /\ nextID <= MaxID
    /\ LET r == Head(batch)
           h == handleRow(reminders, nextID, r, now, f)
       IN /\ batch' = IF h.sent \in {"fail", "baduser"} THEN <<>> ELSE Tail(batch)
          /\ reminders' = h.rs
          /\ nextID' = h.nid
          /\ delivered' = IF h.sent = "ok" THEN [delivered EXCEPT ![r.id] = @ + 1]
                          ELSE delivered
          /\ logs' = IF h.sent = "ok"
                     THEN CreateNotificationLog(logs, r.id, NotificationTelegramMessage, "success")
                     ELSE logs
          /\ escalations' = IF h.sent = "ok" /\ r.priority
                            THEN escalations (+) SetToBag({[id |-> r.id, wakeAt |-> now + EscalationDelay]})
                            ELSE escalations
          /\ lastStep' = Step("Process", r.id, StatusOf(reminders, r.id),
                              h.sent, h.rec)
    /\ UNCHANGED <<now, tickDue, userCalls, calls, calc, inflight, listed, shutdown, itemStore>>

\* A variant of the loop whose send starts the escalation goroutine for
\* every reminder, with or without priority.
ProcessNextEscalatingAll(f) ==
    /\ batch # <<>>
    /\ nextID <= MaxID
    /\ LET r == Head(batch)
           h == handleRow(reminders, nextID, r, now, f)
       IN /\ batch' = Tail(batch)
          /\ reminders' = h.rs
          /\ nextID' = h.nid
          /\ delivered' = IF h.sent = "ok" THEN [delivered EXCEPT ![r.id] = @ + 1]
                          ELSE delivered
          /\ logs' = IF h.sent = "ok"
                     THEN CreateNotificationLog(logs, r.id, NotificationTelegramMessage, "success")
                     ELSE logs
          /\ escalations' = IF h.sent = "ok"
                            THEN escalations (+) SetToBag({[id |-> r.id, wakeAt |-> now + EscalationDelay]})
                            ELSE escalations
          /\ lastStep' = Step("Process", r.id, StatusOf(reminders, r.id),
                              h.sent, h.rec)
    /\ UNCHANGED <<now, tickDue, userCalls, calls, calc, inflight, listed, shutdown, itemStore>>

\* checkReminders, lines 77-100: one iteration of the loop, on the first row
\* of the snapshot that is still to be handled.
ProcessNext(f) ==
    /\ batch # <<>>
    /\ nextID <= MaxID
    /\ LET r == Head(batch)
           h == handleRow(reminders, nextID, r, now, f)
       IN /\ batch' = Tail(batch)
          /\ reminders' = h.rs
          /\ nextID' = h.nid
          /\ delivered' = IF h.sent = "ok" THEN [delivered EXCEPT ![r.id] = @ + 1]
                          ELSE delivered
          /\ logs' = IF h.sent = "ok"
                     THEN CreateNotificationLog(logs, r.id, NotificationTelegramMessage, "success")
                     ELSE logs
          /\ escalations' = IF h.sent = "ok" /\ r.priority
                            THEN escalations (+) SetToBag({[id |-> r.id, wakeAt |-> now + EscalationDelay]})
                            ELSE escalations
          /\ lastStep' = Step("Process", r.id, StatusOf(reminders, r.id),
                              h.sent, h.rec)
    /\ UNCHANGED <<now, tickDue, userCalls, calls, calc, inflight, listed, shutdown, itemStore>>

\* A variant of the escalation that does not look at the reminder's status
\* when its sleep is over.
EscalateWithoutRecheck(e, f) ==
    /\ BagIn(e, escalations)
    /\ now >= e.wakeAt
    /\ LET sent == IF f.send THEN "fail" ELSE "ok"
       IN /\ escalations' = escalations (-) SetToBag({e})
          /\ calls' = IF sent = "ok" THEN [calls EXCEPT ![e.id] = @ + 1] ELSE calls
          /\ logs' = IF sent = "ok"
                     THEN CreateNotificationLog(logs, e.id, NotificationTelegramCall, "success")
                     ELSE logs
          /\ lastStep' = Step("Escalate", e.id, StatusOf(reminders, e.id),
                              sent, "none")
    /\ UNCHANGED <<now, tickDue, reminders, nextID, userCalls, batch, delivered, calc, inflight, listed, shutdown, itemStore>>

\* sendNotification, lines 126-157: the goroutine of a priority reminder,
\* from the moment its sleep is over.
Escalate(e, f) ==
    /\ BagIn(e, escalations)
    /\ now >= e.wakeAt
    /\ LET pending == GetReminder(reminders, e.id).found
                        /\ reminders[e.id].status = StatusPending
           sent == IF ~pending THEN "none" ELSE IF f.send THEN "fail" ELSE "ok"
       IN /\ escalations' = escalations (-) SetToBag({e})
          /\ calls' = IF sent = "ok" THEN [calls EXCEPT ![e.id] = @ + 1] ELSE calls
          /\ logs' = IF sent = "ok"
                     THEN CreateNotificationLog(logs, e.id, NotificationTelegramCall, "success")
                     ELSE logs
          /\ lastStep' = Step("Escalate", e.id, StatusOf(reminders, e.id),
                              sent, "none")
    /\ UNCHANGED <<now, tickDue, reminders, nextID, userCalls, batch, delivered, calc, inflight, listed, shutdown, itemStore>>

(***************************************************************************)
(* The program: the handlers' calls, the clock and the scheduler.          *)
(***************************************************************************)
\* HandleRemindMe and handleRecurringReminder: a reminder is created Pending.
RemindMe(users) ==
    \E u \in users, t \in Titles, d \in DueTimes(now), k \in Kinds :
        CallCreate(u, t, d, k[1], k[2], StatusPending)

\* The calls the command handlers make: HandleRemindMe, HandleComplete and
\* HandleDelete.
HandlerCall(users) ==
    \/ RemindMe(users)
    \/ \E id \in IDs : CallComplete(id)
    \/ \E id \in IDs : CallDelete(id)

\* Any call of the service that changes a reminder.
UserCall(users) ==
    \/ \E u \in users, t \in Titles, d \in DueTimes(now), k \in Kinds,
          st \in {StatusUnset, StatusPending} : CallCreate(u, t, d, k[1], k[2], st)
    \/ \E id \in IDs, t \in Titles, d \in DueTimes(now) : CallUpdate(id, t, d)
    \/ \E id \in IDs : CallComplete(id)
    \/ \E id \in IDs : CallCancel(id)
    \/ \E id \in IDs : CallDelete(id)

Next ==
    \/ UserCall(UserIDs)
    \/ Advance
    \/ checkReminders
    \/ \E f \in Faults : ProcessNext(f)

Spec == Init /\ [][Next]_vars

\* The scheduler over a service whose List("", filter) returns the rows of
\* every user; only then does a send go through and an escalation start.
NextAllUsers ==
    \/ HandlerCall(NumericUserIDs)
    \/ Advance
    \/ checkRemindersAllUsers
    \/ \E f \in Faults : ProcessNext(f)
    \/ \E e \in BagToSet(escalations), f \in Faults : Escalate(e, f)

SpecAllUsers == Init /\ [][NextAllUsers]_vars

\* Minutes pass beyond the last minute the model counts: the ticker goes on
\* delivering ticks; the clock value is no longer advanced, so every
\* reminder due by then stays due.
TickBeyondHorizon ==
    /\ now = MaxTime
    /\ tickDue' = TRUE
    /\ lastStep' = NoStep
    /\ UNCHANGED <<now, reminders, nextID, userCalls, logs, batch, escalations,
                   delivered, calls, calc, inflight, listed, shutdown, itemStore>>

\* The wired program with a store and a notifier that do not fail, reminders
\* that are only created, and a scheduler that keeps ticking and working
\* through each tick's rows.
NextLive ==
    \/ RemindMe(UserIDs)
    \/ Advance
    \/ TickBeyondHorizon
    \/ checkReminders
    \/ \E f \in NoFaults : ProcessNext(f)

SpecLive ==
    /\ Init
    /\ [][NextLive]_vars
    /\ WF_vars(Advance)
    /\ WF_vars(TickBeyondHorizon)
    /\ WF_vars(checkReminders)
    /\ WF_vars(\E f \in NoFaults : ProcessNext(f))

\* The scheduler over a listing of every user's rows, with a store and a
\* notifier that do not fail and users who create reminders and never
\* complete, cancel, delete or update one.
NextUnacknowledged ==
    \/ RemindMe(NumericUserIDs)
    \/ Advance
    \/ checkRemindersAllUsers
    \/ \E f \in NoFaults : ProcessNext(f)
    \/ \E e \in BagToSet(escalations), f \in NoFaults : Escalate(e, f)

SpecUnacknowledged == Init /\ [][NextUnacknowledged]_vars

(***************************************************************************)
(* The recurrence computation on its own: Init draws a pattern, a base     *)
(* time (the due time of the occurrence that fired) and a current time not *)
(* before it; Calculate applies calculateNextOccurrence.                   *)
(***************************************************************************)
\* The patterns the scheduler computes an occurrence for.
SupportedPatterns ==
    {<<"daily">>, <<"weekday">>,
     <<"weekly", ":", "monday">>, <<"weekly", ":", "Friday">>,
     <<"weekly", ":", "tuesday", ",", "saturday">>,
     <<"monthly", ":", "first">>, <<"monthly", ":", "last">>,
     <<"monthly", ":", "1">>, <<"monthly", ":", "15", "th">>,
     <<"monthly", ":", "28">>}

\* Patterns with a day the helpers replace by a default, and patterns the
\* computation refuses.
OtherPatterns ==
    {<<"weekly", ":", "funday">>, <<"monthly", ":", "31", "st">>,
     <<"monthly", ":", "nth">>, <<"weekly">>, <<"yearly", ":", "1">>, <<"bogus">>}

\* Monthly patterns with a day number outside 1..28.
DayNumberPatterns ==
    {<<"monthly", ":", "0">>, <<"monthly", ":", "29">>, <<"monthly", ":", "30">>,
     <<"monthly", ":", "31", "st">>, <<"monthly", ":", "45">>,
     <<"monthly", ":", "99999999999999999999", "th">>}

CalcPatterns == SupportedPatterns \cup OtherPatterns \cup DayNumberPatterns

\* Times of day of the base (09:00, 23:30) and of the current time.
BaseClocks == {540, 1410}

NowClocks == {0, 540, 541}

CalcInputs ==
    {[phase |-> "input", command |-> <<>>, pattern |-> p, base |-> bd * MinutesPerDay + bc,
      now |-> nd * MinutesPerDay + nc, err |-> FALSE, next |-> 0,
      title |-> <<>>, priority |-> FALSE] :
        p \in CalcPatterns, bd \in 0..MaxBaseDay, bc \in BaseClocks,
        nd \in 0..MaxNowDay, nc \in NowClocks}

InitCalc ==
    /\ now = 0
    /\ tickDue = FALSE
    /\ reminders = <<>>
    /\ nextID = 1
    /\ userCalls = 0
    /\ logs = EmptyBag
    /\ batch = <<>>
    /\ escalations = EmptyBag
    /\ delivered = [i \in IDs |-> 0]
    /\ calls = [i \in IDs |-> 0]
    /\ lastStep = NoStep
    /\ calc \in {c \in CalcInputs : c.base <= c.now}
    /\ inflight = NoCalls
    /\ listed = NoList
    /\ shutdown = Started
    /\ itemStore = NoItems

\* The calls of calculateNextOccurrence with any current time, before the
\* base as well as after it.
InitCalcAnyNow ==
    /\ now = 0
    /\ tickDue = FALSE
    /\ reminders = <<>>
    /\ nextID = 1
    /\ userCalls = 0
    /\ logs = EmptyBag
    /\ batch = <<>>
    /\ escalations = EmptyBag
    /\ delivered = [i \in IDs |-> 0]
    /\ calls = [i \in IDs |-> 0]
    /\ lastStep = NoStep
    /\ calc \in CalcInputs
    /\ inflight = NoCalls
    /\ listed = NoList
    /\ shutdown = Started
    /\ itemStore = NoItems

Calculate ==
    /\ calc.phase = "input"
    /\ LET n == calculateNextOccurrence(calc.pattern, calc.base, calc.now)
       IN calc' = [calc EXCEPT !.phase = "done", !.err = n.err, !.next = n.next]
    /\ UNCHANGED <<now, tickDue, reminders, nextID, userCalls, logs, batch,
                   escalations, delivered, calls, lastStep, inflight, listed, shutdown, itemStore>>

NextCalc == Calculate

SpecCalc == InitCalc /\ [][NextCalc]_vars

SpecCalcAnyNow == InitCalcAnyNow /\ [][NextCalc]_vars

(***************************************************************************)
(* calculateNextOccurrence, one iteration of its loop at a time.           *)
(***************************************************************************)
\* The patterns of the calls: those of CalcPatterns, a weekly pattern with
\* an empty day list, and weekly patterns with names that are no weekdays.
LoopPatterns ==
    CalcPatterns \cup {<<"weekly", ":">>, <<"weekly", ":", "funday", ",", "moonday">>,
                       <<"weekly", ":", "funday", ",", "monday">>}

LoopInputs ==
    {[phase |-> "input", pattern |-> p, base |-> bd * MinutesPerDay + 540,
      now |-> nd * MinutesPerDay + 541, err |-> FALSE, next |-> 0, steps |-> 0] :
        p \in LoopPatterns, bd \in 0..MaxLoopBaseDay, nd \in 0..MaxLoopNowDay}

InitLoop ==
    /\ now = 0
    /\ tickDue = FALSE
    /\ reminders = <<>>
    /\ nextID = 1
    /\ userCalls = 0
    /\ logs = EmptyBag
    /\ batch = <<>>
    /\ escalations = EmptyBag
    /\ delivered = [i \in IDs |-> 0]
    /\ calls = [i \in IDs |-> 0]
    /\ lastStep = NoStep
    /\ calc \in LoopInputs
    /\ inflight = NoCalls
    /\ listed = NoList
    /\ shutdown = Started
    /\ itemStore = NoItems

\* calculateNextOccurrence, lines 191-194 and 248-250: the patterns refused.
Refused(pattern) ==
    LET parts == SplitN2(pattern, ":")
    IN \/ Len(parts) # 2 /\ parts[1] # <<"daily">> /\ parts[1] # <<"weekday">>
       \/ parts[1] \notin {<<"daily">>, <<"weekday">>, <<"weekly">>, <<"monthly">>}

\* The step of the pattern's loop: a month for monthly, a day otherwise.
LoopAdvance(pattern, t) ==
    IF SplitN2(pattern, ":")[1] = <<"monthly">> THEN AddDate(t, 1, 0) ELSE AddDate(t, 0, 1)

\* The conditions of the four for loops, lines 202, 209, 223 and 232.
KeepsLooping(pattern, next, nowT) ==
    LET parts == SplitN2(pattern, ":")
    IN CASE parts[1] = <<"weekday">> ->
               Before(next, nowT) \/ Weekday(next) = Saturday \/ Weekday(next) = Sunday
         [] parts[1] = <<"weekly">> ->
               LET days == Split(parts[2], ",")
                   weekdays == {parseWeekday(days[i]) : i \in 1..Len(days)}
               IN Before(next, nowT) \/ Weekday(next) \notin weekdays
         [] OTHER -> Before(next, nowT)

\* Lines 191-201: the pattern is refused, or the loop is entered.
EnterLoop ==
    /\ calc.phase = "input"
    /\ calc' = IF Refused(calc.pattern)
               THEN [calc EXCEPT !.phase = "done", !.err = TRUE, !.next = ZeroTime]
               ELSE [calc EXCEPT !.phase = "loop",
                                 !.next = LoopAdvance(calc.pattern, calc.base)]
    /\ UNCHANGED <<now, tickDue, reminders, nextID, userCalls, logs, batch, escalations,
                   delivered, calls, lastStep, inflight, listed, shutdown, itemStore>>

\* One iteration of the loop.
LoopStep ==
    /\ calc.phase = "loop"
    /\ calc.steps < MaxLoopSteps
    /\ KeepsLooping(calc.pattern, calc.next, calc.now)
    /\ calc' = [calc EXCEPT !.next = LoopAdvance(calc.pattern, calc.next),
                            !.steps = @ + 1]
    /\ UNCHANGED <<now, tickDue, reminders, nextID, userCalls, logs, batch, escalations,
                   delivered, calls, lastStep, inflight, listed, shutdown, itemStore>>

\* The loop's condition is false: the function returns.
LeaveLoop ==
    /\ calc.phase = "loop"
    /\ ~KeepsLooping(calc.pattern, calc.next, calc.now)
    /\ LET parts == SplitN2(calc.pattern, ":")
       IN calc' = [calc EXCEPT !.phase = "done",
                               !.next = IF parts[1] = <<"monthly">>
                                        THEN MonthlyPin(calc.next, calc.base, parts[2])
                                        ELSE calc.next]
    /\ UNCHANGED <<now, tickDue, reminders, nextID, userCalls, logs, batch, escalations,
                   delivered, calls, lastStep, inflight, listed, shutdown, itemStore>>

NextLoop ==
    \/ EnterLoop
    \/ LoopStep
    \/ LeaveLoop

\* The goroutine that runs the function goes on running.
SpecLoop == InitLoop /\ [][NextLoop]_vars /\ WF_vars(NextLoop)

(***************************************************************************)
(* Recurring reminders from a command (parser.go).  A command is the       *)
(* sequence of its words; the separators " to ", " at " and " and " are    *)
(* the words to, at and and.                                               *)
(***************************************************************************)
\* parseTimeOfDay: the formats 3:04pm, 3pm and 15:04, on the words the
\* commands of the model use; the result is that time of day today.
parseTimeOfDay(input, nowT) ==
    LET x == ToLower(input)
        hm == CASE x = <<"9am">> -> 540 [] x = <<"10am">> -> 600
                [] x = <<"2pm">> -> 840 [] x = <<"3pm">> -> 900
                [] x = <<"15:04">> -> 904 [] OTHER -> -1
    IN IF hm < 0 THEN [err |-> TRUE, t |-> ZeroTime]
       ELSE [err |-> FALSE, t |-> Date(Year(nowT), Month(nowT), Day(nowT), hm)]

ValidDays == {"sunday", "monday", "tuesday", "wednesday", "thursday", "friday", "saturday"}

\* strings.Join(days, ",")
RECURSIVE JoinComma(_)
JoinComma(days) ==
    IF Len(days) = 1 THEN days[1]
    ELSE days[1] \o <<",">> \o JoinComma(Tail(days))

\* validateSchedule
validateSchedule(schedule) ==
    IF schedule = <<"day">> \/ schedule = <<"daily">>
    THEN [err |-> FALSE, pattern |-> <<"daily">>]
    ELSE IF schedule = <<"weekday">>
    THEN [err |-> FALSE, pattern |-> <<"weekday">>]
    ELSE IF Len(schedule) >= 1 /\ schedule[1] \in {"month", "monthly"}
    THEN IF /\ Len(schedule) >= 4
            /\ SubSeq(schedule, 1, 3) = <<"month", "on", "the">>
            /\ schedule[4] \in {"first", "last"}
         THEN [err |-> FALSE, pattern |-> <<"monthly", ":", schedule[4]>>]
         ELSE IF /\ Len(schedule) >= 5
                 /\ SubSeq(schedule, 1, 3) = <<"month", "on", "the">>
                 /\ schedule[4] \in Numerals \cup OverflowNumerals
                 /\ schedule[5] \in {"st", "nd", "rd", "th"}
         THEN [err |-> FALSE, pattern |-> <<"monthly", ":", schedule[4], schedule[5]>>]
         ELSE [err |-> TRUE, pattern |-> NoPattern]
    ELSE LET parts == Split(schedule, "and")
             days == [i \in 1..Len(parts) |-> ToLower(TrimSpace(parts[i]))]
         IN IF \A i \in 1..Len(days) : Len(days[i]) = 1 /\ days[i][1] \in ValidDays
            THEN [err |-> FALSE, pattern |-> <<"weekly", ":">> \o JoinComma(days)]
            ELSE [err |-> TRUE, pattern |-> NoPattern]

\* ParseRecurrencePattern
ParseRecurrencePattern(input, nowT) ==
    LET low == ToLower(input)
        parts == Split(Tail(low), "at")
        t == parseTimeOfDay(parts[2], nowT)
        v == validateSchedule(parts[1])
    IN IF low = <<>> \/ low[1] # "every" \/ Len(parts) # 2 \/ t.err \/ v.err
       THEN [err |-> TRUE, pattern |-> NoPattern, t |-> ZeroTime]
       ELSE [err |-> FALSE, pattern |-> v.pattern, t |-> t.t]

\* The title a message of the command stands for: the titles of the model are
\* "" and "t".
TitleOf(words) == IF words = <<>> THEN "" ELSE "t"

\* handleRecurringReminder up to its call of service.Create: the reminder it
\* builds.
recurringReminder(userID, args, nowT) ==
    LET parts == SplitN2(args, "to")
        isPriority == parts[2] # <<>> /\ parts[2][Len(parts[2])] = "-call"
        title == IF isPriority THEN SubSeq(parts[2], 1, Len(parts[2]) - 1) ELSE parts[2]
        p == ParseRecurrencePattern(parts[1], nowT)
    IN IF Len(parts) # 2 \/ p.err
       THEN [err |-> TRUE, r |-> <<>>]
       ELSE [err |-> FALSE,
             r |-> [id |-> 0, userID |-> userID, title |-> TitleOf(title),
                    dueTime |-> p.t, recurrencePattern |-> p.pattern,
                    priority |-> isPriority, status |-> StatusPending]]

\* The commands: the examples of the documentation and of the spec, the
\* monthly ones with and without a time, and two that name no day or time.
Commands ==
    {<<"every", "Sunday", "at", "10am", "to", "water", "plants">>,
     <<"every", "day", "at", "2pm", "to", "take", "a", "break">>,
     <<"every", "month", "on", "the", "first", "to", "pay", "rent", "-call">>,
     <<"every", "month", "on", "the", "last", "to", "pay", "rent">>,
     <<"every", "month", "on", "the", "15", "th", "to", "pay", "rent">>,
     <<"every", "month", "on", "the", "last", "at", "9am", "to", "pay", "rent">>,
     <<"every", "month", "on", "the", "15", "th", "at", "9am", "to", "pay", "rent">>,
     <<"Every", "Monday", "and", "Wednesday", "at", "3pm", "to", "attend", "team", "meeting">>,
     <<"every", "weekday", "at", "9am", "to", "check", "emails", "-call">>,
     <<"every", "funday", "at", "9am", "to", "rest">>,
     <<"every", "day", "at", "noon", "to", "eat">>}

InitCommand ==
    /\ now \in {d * MinutesPerDay + c : d \in 0..MaxBaseDay, c \in NowClocks \cup {601, 1410}}
    /\ tickDue = FALSE
    /\ reminders = <<>>
    /\ nextID = 1
    /\ userCalls = 0
    /\ logs = EmptyBag
    /\ batch = <<>>
    /\ escalations = EmptyBag
    /\ delivered = [i \in IDs |-> 0]
    /\ calls = [i \in IDs |-> 0]
    /\ lastStep = NoStep
    /\ calc \in {[NoCalc EXCEPT !.phase = "command", !.command = c] : c \in Commands}
    /\ inflight = NoCalls
    /\ listed = NoList
    /\ shutdown = Started
    /\ itemStore = NoItems

\* HandleRemindMe with a command that starts with "every":
\* handleRecurringReminder.
handleRecurringReminder(userID) ==
    /\ calc.phase = "command"
    /\ LET b == recurringReminder(userID, calc.command, now)
           c == IF b.err THEN [err |-> TRUE, rs |-> reminders, nid |-> nextID]
                ELSE Create(reminders, nextID, b.r, now, FALSE)
       IN /\ reminders' = c.rs
          /\ nextID' = c.nid
          /\ userCalls' = IF c.err THEN userCalls ELSE userCalls + 1
          /\ calc' = [calc EXCEPT !.phase = IF b.err THEN "refused"
                                            ELSE IF c.err THEN "rejected" ELSE "created",
                                  !.pattern = IF b.err THEN NoPattern ELSE b.r.recurrencePattern,
                                  !.err = c.err]
    /\ UNCHANGED <<now, tickDue, logs, batch, escalations, delivered, calls, lastStep,
                   inflight, listed, shutdown, itemStore>>

NextCommand == \E u \in NumericUserIDs : handleRecurringReminder(u)

SpecCommand == InitCommand /\ [][NextCommand]_vars

(***************************************************************************)
(* Concurrent calls of the service.  Complete and Cancel are two steps,    *)
(* the store's GetReminder and then its UpdateReminder of the row that was *)
(* read; nothing orders the steps of two callers (sqlite.go has no         *)
(* transaction around them).  Delete and Update are one statement each.    *)
(***************************************************************************)
\* GetReminder's result: the row, or none.
GetRow(rs, id) == IF GetReminder(rs, id).found THEN <<rs[id]>> ELSE <<>>

\* The status service.Complete and service.Cancel set.
StatusSetBy(op) == IF op = "Complete" THEN StatusCompleted ELSE StatusCancelled

\* A variant of the write that refuses a row that already has the status.
putStatusOnceOnly(rs, row, status) ==
    IF row.status = status
    THEN [found |-> FALSE, rs |-> rs]
    ELSE UpdateReminder(rs, [row EXCEPT !.status = status])

\* service.Complete and service.Cancel after the read: the status of the row
\* that was read is set and the row is written.
putStatus(rs, row, status) ==
    UpdateReminder(rs, [row EXCEPT !.status = status])

\* service.Complete or service.Cancel, first half: store.GetReminder.
ReadForStatus(c, op, id) ==
    /\ inflight[c].pc = "idle"
    /\ LET row == GetRow(reminders, id)
       IN inflight' = [inflight EXCEPT ![c] =
              IF row = <<>> THEN Call(op, id, "done", <<>>, "notfound")
              ELSE Call(op, id, "read", row, "none")]
    /\ UNCHANGED <<now, tickDue, reminders, nextID, userCalls, logs, batch,
                   escalations, delivered, calls, lastStep, calc, listed, shutdown, itemStore>>

\* A variant of the second half that writes only when the stored row is
\* still the row that was read, and fails otherwise.
WriteStatusIfUnchanged(c) ==
    /\ inflight[c].pc = "read"
    /\ LET same == GetRow(reminders, inflight[c].id) = inflight[c].row
           u == putStatus(reminders, inflight[c].row[1], StatusSetBy(inflight[c].op))
       IN /\ reminders' = IF same THEN u.rs ELSE reminders
          /\ inflight' = [inflight EXCEPT ![c].pc = "done",
                                          ![c].res = IF same /\ u.found THEN "ok"
                                                     ELSE "notfound"]
    /\ UNCHANGED <<now, tickDue, nextID, userCalls, logs, batch,
                   escalations, delivered, calls, lastStep, calc, listed, shutdown, itemStore>>

\* service.Complete or service.Cancel, second half: store.UpdateReminder.
WriteStatus(c) ==
    /\ inflight[c].pc = "read"
    /\ LET u == putStatus(reminders, inflight[c].row[1], StatusSetBy(inflight[c].op))
       IN /\ reminders' = u.rs
          /\ inflight' = [inflight EXCEPT ![c].pc = "done",
                                          ![c].res = IF u.found THEN "ok" ELSE "notfound"]
    /\ UNCHANGED <<now, tickDue, nextID, userCalls, logs, batch,
                   escalations, delivered, calls, lastStep, calc, listed, shutdown, itemStore>>

\* service.Delete by a caller.
RaceDelete(c, id) ==
    /\ inflight[c].pc = "idle"
    /\ LET d == Delete(reminders, id)
       IN /\ reminders' = d.rs
          /\ inflight' = [inflight EXCEPT ![c] =
                 Call("Delete", id, "done", <<>>, IF d.err THEN "notfound" ELSE "ok")]
    /\ UNCHANGED <<now, tickDue, nextID, userCalls, logs, batch,
                   escalations, delivered, calls, lastStep, calc, listed, shutdown, itemStore>>

\* service.Update by a caller, of a reminder with a new title and a new due
\* time.
RaceUpdate(c, id, title, due) ==
    /\ inflight[c].pc = "idle"
    /\ LET old == IF id \in DOMAIN reminders THEN reminders[id]
                  ELSE [id |-> id, userID |-> <<"7">>, title |-> title, dueTime |-> due,
                        recurrencePattern |-> NoPattern, priority |-> FALSE,
                        status |-> StatusPending]
           r == [old EXCEPT !.title = title, !.dueTime = due]
           u == Update(reminders, r, now, FALSE)
       IN /\ reminders' = u.rs
          /\ inflight' = [inflight EXCEPT ![c] =
                 Call("Update", id, "done", <<>>,
                      IF Invalid(r, now) THEN "invalid"
                      ELSE IF u.err THEN "notfound" ELSE "ok")]
    /\ UNCHANGED <<now, tickDue, nextID, userCalls, logs, batch,
                   escalations, delivered, calls, lastStep, calc, listed, shutdown, itemStore>>

NextRace ==
    \/ RemindMe(NumericUserIDs)
    \/ \E c \in Callers, op \in {"Complete", "Cancel"}, id \in IDs : ReadForStatus(c, op, id)
    \/ \E c \in Callers : WriteStatus(c)
    \/ \E c \in Callers, id \in IDs : RaceDelete(c, id)
    \/ \E c \in Callers, id \in IDs, t \in Titles, d \in DueTimes(now) : RaceUpdate(c, id, t, d)

SpecRace == Init /\ [][NextRace]_vars

(***************************************************************************)
(* Calls of service.List.                                                  *)
(***************************************************************************)
\* The filters a caller passes: each of the four conditions set or not (a
\* condition that is not set has one value, the nil pointer).
ListFilters ==
    {f \in [hasStatus : BOOLEAN, status : {StatusPending, StatusCompleted},
            hasPriority : BOOLEAN, priority : BOOLEAN,
            hasFrom : BOOLEAN, fromTime : {1}, hasTo : BOOLEAN, toTime : {1}] :
        /\ ~f.hasStatus => f.status = StatusPending
        /\ ~f.hasPriority => f.priority = FALSE}

\* service.List(userID, filter)
CallList(userID, filter) ==
    /\ listed' = [asked |-> TRUE, userID |-> userID, filter |-> filter,
                  rows |-> ListReminders(reminders, userID, filter)]
    /\ UNCHANGED <<now, tickDue, reminders, nextID, userCalls, logs, batch,
                   escalations, delivered, calls, lastStep, calc, inflight, shutdown, itemStore>>

NextList ==
    \/ \E u \in UserIDs, d \in DueTimes(now), k \in Kinds :
          CallCreate(u, "t", d, k[1], k[2], StatusPending)
    \/ \E id \in IDs : CallComplete(id)
    \/ \E u \in UserIDs, f \in ListFilters : CallList(u, f)

SpecList == Init /\ [][NextList]_vars

(***************************************************************************)
(* Start, Stop and run (scheduler.go, lines 36-61).  run is inside         *)
(* checkReminders from the tick's query until the last row of the          *)
(* snapshot is handled; between ticks it is at its select.                 *)
(***************************************************************************)
\* Stop, line 43: close(s.stopChan); the caller then waits on the WaitGroup.
CallStop ==
    /\ shutdown.stop = "idle"
    /\ shutdown' = [shutdown EXCEPT !.stopChan = "closed", !.stop = "waiting",
                                    !.inTick = batch # <<>>]
    /\ UNCHANGED <<now, tickDue, reminders, nextID, userCalls, logs, batch,
                   escalations, delivered, calls, lastStep, calc, inflight, listed, itemStore>>

\* A variant of run that returns as soon as stopChan is closed, also in the
\* middle of a tick.
RunReturnsAtOnce ==
    /\ shutdown.run = "looping"
    /\ shutdown.stopChan = "closed"
    /\ shutdown' = [shutdown EXCEPT !.run = "returned"]
    /\ UNCHANGED <<now, tickDue, reminders, nextID, userCalls, logs, batch,
                   escalations, delivered, calls, lastStep, calc, inflight, listed, itemStore>>

\* run, lines 54-56: at the select, the case of stopChan; the deferred
\* wg.Done and ticker.Stop run.
RunReturns ==
    /\ shutdown.run = "looping"
    /\ batch = <<>>
    /\ shutdown.stopChan = "closed"
    /\ shutdown' = [shutdown EXCEPT !.run = "returned"]
    /\ UNCHANGED <<now, tickDue, reminders, nextID, userCalls, logs, batch,
                   escalations, delivered, calls, lastStep, calc, inflight, listed, itemStore>>

\* Stop, line 44: wg.Wait returns once run has called wg.Done.
StopReturns ==
    /\ shutdown.stop = "waiting"
    /\ shutdown.run = "returned"
    /\ shutdown' = [shutdown EXCEPT !.stop = "returned"]
    /\ UNCHANGED <<now, tickDue, reminders, nextID, userCalls, logs, batch,
                   escalations, delivered, calls, lastStep, calc, inflight, listed, itemStore>>

\* run, lines 57-58: at the select, the case of the ticker.
RunTick == shutdown.run = "looping" /\ checkRemindersAllUsers

\* run inside checkReminders: the next row of the snapshot.
RunProcess == shutdown.run = "looping" /\ \E f \in NoFaults : ProcessNext(f)

\* HandleRemindMe with a valid command: a reminder due in a minute.
RemindMeSoon ==
    \E k \in Kinds : CallCreate(<<"7">>, "t", now + 1, k[1], k[2], StatusPending)

\* The scheduler with a store and a notifier that do not fail, users who
\* create reminders, and a caller of Stop.
NextStop ==
    \/ RemindMeSoon
    \/ Advance
    \/ RunTick
    \/ RunProcess
    \/ CallStop
    \/ RunReturns
    \/ StopReturns

\* select chooses among the ready cases at random, so the case of stopChan
\* is taken if it is ready again and again; a tick that has begun goes on.
SpecStop ==
    /\ Init
    /\ [][NextStop]_vars
    /\ WF_vars(RunProcess)
    /\ SF_vars(RunReturns)
    /\ WF_vars(StopReturns)

\* service.Create of a reminder without the priority flag that is due in a
\* minute, of a user whose id is a number or empty.
CreateSoon ==
    \E u \in UserIDs, k \in Kinds : CallCreate(u, "t", now + 1, k[1], FALSE, StatusPending)

\* The scheduler over a listing of every user's rows, with a notifier and a
\* store that may fail at every step, and a loop that goes on once begun.
NextFaulty ==
    \/ CreateSoon
    \/ Advance
    \/ checkRemindersAllUsers
    \/ \E f \in Faults : ProcessNext(f)

SpecFaulty ==
    /\ Init
    /\ [][NextFaulty]_vars
    /\ WF_vars(checkRemindersAllUsers)
    /\ WF_vars(\E f \in Faults : ProcessNext(f))

(***************************************************************************)
(* Time zone conversion: ConvertTimeZonesWithTools (time/tools.go).  A     *)
(* wall clock time is counted in minutes like an instant; the wall clock   *)
(* of an instant in a zone is the instant plus the zone's offset.  The     *)
(* dates of the model lie in winter, where each zone has one offset.       *)
(***************************************************************************)
NoClock == -1

\* time.Parse("3:04 PM", s), then time.Parse("15:04", s): the minutes of the
\* day, NoClock when both fail.
ParseClock(timeStr) ==
    CASE timeStr = "12:30 AM" -> 30
      [] timeStr = "8:00 AM" -> 480
      [] timeStr = "2:00 PM" -> 840
      [] timeStr = "14:00" -> 840
      [] timeStr = "8:00 PM" -> 1200
      [] timeStr = "23:30" -> 1410
      [] OTHER -> NoClock

TimeStrings == {"12:30 AM", "8:00 AM", "2:00 PM", "14:00", "8:00 PM", "23:30", "invalid"}

\* The zones the callers write: IANA names, UTC, a city name, the empty
\* string and a name that is no zone.
ZoneNames == {"America/New_York", "Europe/London", "Asia/Tokyo", "UTC", "New York", "",
              "Invalid/Zone"}

NoLocation == "none"

\* time.LoadLocation: "" and "UTC" are UTC; any other name is looked up in
\* the zone database as written.  Whether a name in lower case finds the
\* entry written with capitals depends on the database the program runs
\* with (a directory on a file system that ignores case does, a directory
\* on one that does not, or the embedded archive, does not): foldsCase.
LoadLocation(name, foldsCase) ==
    CASE name \in {"", "UTC"} -> "UTC"
      [] name \in {"America/New_York", "Europe/London", "Asia/Tokyo"} -> name
      [] name = "america/new_york" /\ foldsCase -> "America/New_York"
      [] name = "europe/london" /\ foldsCase -> "Europe/London"
      [] name = "asia/tokyo" /\ foldsCase -> "Asia/Tokyo"
      [] OTHER -> NoLocation

\* commonCityToZone, the entries of the names of the model.
commonCityToZone(name) ==
    CASE name = "new york" -> "America/New_York"
      [] name = "utc" -> "UTC"
      [] OTHER -> NoLocation

\* ConvertTimeZonesWithTools, lines 42-51 and 62-86: the location of a zone
\* argument, NoLocation when it is an error.
KnownZone(zone, foldsCase) ==
    LET lower == ToLowerLex(zone)
        name == IF lower = "utc" THEN "UTC" ELSE lower
        loc == LoadLocation(name, foldsCase)
    IN IF loc # NoLocation THEN loc
       ELSE IF commonCityToZone(name) # NoLocation
            THEN LoadLocation(commonCityToZone(name), foldsCase)
            ELSE NoLocation

\* Zone(): the offset of the location from UTC, in minutes.
ZoneOffset(loc) ==
    CASE loc = "America/New_York" -> -300
      [] loc = "Europe/London" -> 0
      [] loc = "Asia/Tokyo" -> 540
      [] loc = "UTC" -> 0

\* time.Now() at the calls: the middle and the last day of a month, the first
\* day of the next, the last day of a year and the first of the next.
ConvertNows ==
    {Date(2024, 1, 15, 600), Date(2024, 1, 31, 600), Date(2024, 2, 1, 600),
     Date(2024, 12, 31, 600), Date(2025, 1, 1, 600)}

\* ConvertTimeZonesWithTools, lines 108-115
dayDiff(sourceTime, targetTime) ==
    IF Day(targetTime) # Day(sourceTime) \/ Month(targetTime) # Month(sourceTime)
    THEN IF Day(targetTime) < Day(sourceTime) \/ Month(targetTime) < Month(sourceTime)
         THEN " previous day"
         ELSE " next day"
    ELSE ""

\* ConvertTimeZonesWithTools: sourceTime and targetTime are the wall clock
\* times of the one instant in the two zones.
ConvertTimeZonesWithTools(timeStr, fromZone, toZone, nowT, foldsCase) ==
    LET clock == ParseClock(timeStr)
        fromLoc == KnownZone(fromZone, foldsCase)
        toLoc == KnownZone(toZone, foldsCase)
        sourceTime == Date(Year(nowT), Month(nowT), Day(nowT), clock)
        targetTime == sourceTime - ZoneOffset(fromLoc) + ZoneOffset(toLoc)
    IN IF clock = NoClock \/ fromLoc = NoLocation \/ toLoc = NoLocation
       THEN [err |-> TRUE, sourceTime |-> 0, targetTime |-> 0, dayDiff |-> ""]
       ELSE [err |-> FALSE, sourceTime |-> sourceTime, targetTime |-> targetTime,
             dayDiff |-> dayDiff(sourceTime, targetTime)]

InitConvert ==
    /\ now \in ConvertNows
    /\ tickDue = FALSE
    /\ reminders = <<>>
    /\ nextID = 1
    /\ userCalls = 0
    /\ logs = EmptyBag
    /\ batch = <<>>
    /\ escalations = EmptyBag
    /\ delivered = [i \in IDs |-> 0]
    /\ calls = [i \in IDs |-> 0]
    /\ lastStep = NoStep
    /\ \E ts \in TimeStrings, fz \in ZoneNames, tz \in ZoneNames, fc \in BOOLEAN :
          calc = [phase |-> "convert", timeStr |-> ts, fromZone |-> fz, toZone |-> tz,
                  foldsCase |-> fc,
                  err |-> FALSE, sourceTime |-> 0, targetTime |-> 0, dayDiff |-> ""]
    /\ inflight = NoCalls
    /\ listed = NoList
    /\ shutdown = Started
    /\ itemStore = NoItems

CallConvert ==
    /\ calc.phase = "convert"
    /\ LET c == ConvertTimeZonesWithTools(calc.timeStr, calc.fromZone, calc.toZone, now,
                                        calc.foldsCase)
       IN calc' = [calc EXCEPT !.phase = "converted", !.err = c.err,
                               !.sourceTime = c.sourceTime, !.targetTime = c.targetTime,
                               !.dayDiff = c.dayDiff]
    /\ UNCHANGED <<now, tickDue, reminders, nextID, userCalls, logs, batch, escalations,
                   delivered, calls, lastStep, inflight, listed, shutdown, itemStore>>

NextConvert == CallConvert

SpecConvert == InitConvert /\ [][NextConvert]_vars

(***************************************************************************)
(* Recurrence chains.  The successor of a fired reminder carries its title *)
(* (scheduleNextRecurrence), so when every recurring reminder a user       *)
(* creates has a title of its own, the rows of a title are one chain.      *)
(***************************************************************************)
ChainTitles == {"t1", "t2"}

\* A user creates a recurring reminder under a title not in use.
CreateChain ==
    \E title \in ChainTitles, due \in {now, now + 1}, pattern \in {<<"daily">>, <<"bogus">>} :
        /\ \A i \in DOMAIN reminders : reminders[i].title # title
        /\ CallCreate(<<"7">>, title, due, pattern, FALSE, StatusPending)

\* The scheduler over a listing of every user's rows, with users who
\* complete, cancel and delete reminders between its steps.
NextChains ==
    \/ CreateChain
    \/ \E id \in IDs : CallComplete(id)
    \/ \E id \in IDs : CallCancel(id)
    \/ \E id \in IDs : CallDelete(id)
    \/ Advance
    \/ checkRemindersAllUsers
    \/ \E f \in Faults : ProcessNext(f)

SpecChains == Init /\ [][NextChains]_vars

(***************************************************************************)
(* The item store: the commands /add, /pull, /delete and /undo of one chat *)
(* (main.go).  dbFails stands for an error of the command's statements.    *)
(***************************************************************************)
HalfHour == 30

Hour == 60

Reply(st, text, round) == [st EXCEPT !.reply = text, !.round = round]

\* case "add"
AddItem(text, dbFails) ==
    /\ itemStore.items[text] < MaxCopies
    /\ itemStore' =
          IF dbFails THEN Reply(itemStore, "Failed to store item.", "none")
          ELSE [Reply(itemStore, "Added", "none") EXCEPT !.items[text] = @ + 1]

\* case "pull": ORDER BY RANDOM() LIMIT 1 is any of the rows.
PullItem ==
    \/ /\ \A t \in Texts : itemStore.items[t] = 0
       /\ itemStore' = Reply(itemStore, "No items available.", "none")
    \/ \E t \in Texts :
          /\ itemStore.items[t] > 0
          /\ itemStore' = [Reply(itemStore, "pulled", "pulled") EXCEPT !.lastPulled = t]

\* case "delete": lastDeleted is set before the transaction; one row goes
\* into deleted, every row of items with the text goes.
DeleteItem(dbFails) ==
    LET text == itemStore.lastPulled
        noted == [itemStore EXCEPT !.lastDeleted = <<[Text |-> text, DeletedAt |-> now]>>]
    IN IF text = NoText
       THEN itemStore' = Reply(itemStore, "Pull an item first using /pull", "none")
       ELSE IF dbFails
            THEN itemStore' = Reply(noted, "Failed to delete item.", "none")
            ELSE /\ itemStore.deleted[text] < MaxCopies
                 /\ itemStore' =
                       [Reply(noted, "Deleted",
                              IF itemStore.round = "pulled" THEN "deleted" ELSE "none")
                        EXCEPT !.deleted[text] = @ + 1, !.items[text] = 0,
                               !.lastPulled = NoText,
                               !.atDelete = <<[items |-> itemStore.items,
                                               deleted |-> itemStore.deleted]>>]

\* case "undo": one row goes back into items, every row of deleted with the
\* text goes.
UndoItem(dbFails) ==
    IF itemStore.lastDeleted = <<>>
    THEN itemStore' = Reply(itemStore, "Nothing to undo", "none")
    ELSE LET lastDel == itemStore.lastDeleted[1]
         IN IF now - lastDel.DeletedAt > Hour
            THEN itemStore' = Reply(itemStore, "Can't undo deletions older than 1 hour",
                                    "none")
            ELSE IF dbFails
                 THEN itemStore' = Reply(itemStore, "Failed to undo deletion", "none")
                 ELSE /\ itemStore.items[lastDel.Text] < MaxCopies
                      /\ itemStore' =
                            [Reply(itemStore, "Restored",
                                   IF itemStore.round = "deleted" THEN "undone" ELSE "none")
                             EXCEPT !.items[lastDel.Text] = @ + 1,
                                    !.deleted[lastDel.Text] = 0,
                                    !.lastDeleted = <<>>]

\* Half an hour passes between two commands.
TimePasses ==
    /\ now < MaxUndoWait * HalfHour
    /\ now' = now + HalfHour

NextItems ==
    \/ /\ \/ \E t \in Texts, f \in BOOLEAN : AddItem(t, f)
          \/ PullItem
          \/ \E f \in BOOLEAN : DeleteItem(f)
          \/ \E f \in BOOLEAN : UndoItem(f)
       /\ UNCHANGED <<now, tickDue, reminders, nextID, userCalls, logs, batch, escalations,
                      delivered, calls, lastStep, calc, inflight, listed, shutdown>>
    \/ /\ TimePasses
       /\ UNCHANGED <<tickDue, reminders, nextID, userCalls, logs, batch, escalations,
                      delivered, calls, lastStep, calc, inflight, listed, shutdown,
                      itemStore>>

SpecItems == Init /\ [][NextItems]_vars

(***************************************************************************)
(* Recipients: the UserID of a row is whatever the caller of Create passed *)
(* (Validate does not look at it); sendNotification parses it.             *)
(***************************************************************************)
\* The UserIDs of the rows: empty, no digits, digits followed by letters
\* ("7ab"), and a numeric identifier.
RecipientIDs == {<<>>, <<"ab">>, <<"7", "ab">>, <<"7">>}

CreateFor ==
    \E u \in RecipientIDs, k \in Kinds :
        CallCreate(u, "t", now + 1, k[1], k[2], StatusPending)

\* The scheduler over a listing of every user's rows, with rows of every
\* kind of UserID.
NextRecipients ==
    \/ CreateFor
    \/ Advance
    \/ checkRemindersAllUsers
    \/ \E f \in Faults : ProcessNext(f)

SpecRecipients == Init /\ [][NextRecipients]_vars

(***************************************************************************)
(* One-time reminders from a command: ParseCommand and ParseTimeExpression *)
(* (parser.go).  The words of an input are separated by single blanks; the *)
(* lexeme " " is further white space at an end of the input.               *)
(***************************************************************************)
\* strconv.Atoi on the numerals the inputs of the model use; a numeral that
\* does not fit the integer, and a word that is no numeral, is an error.
Atoi(x) ==
    CASE x = "-5" -> [err |-> FALSE, val |-> -5]
      [] x = "0" -> [err |-> FALSE, val |-> 0]
      [] x = "1" -> [err |-> FALSE, val |-> 1]
      [] x = "2" -> [err |-> FALSE, val |-> 2]
      [] x = "45" -> [err |-> FALSE, val |-> 45]
      [] x = "2562048" -> [err |-> FALSE, val |-> 2562048]
      [] x = "153722867" -> [err |-> FALSE, val |-> 153722867]
      [] x = "153722868" -> [err |-> FALSE, val |-> 153722868]
      [] OTHER -> [err |-> TRUE, val |-> 0]

\* The largest time.Duration (2^63 - 1 nanoseconds) in whole minutes, and
\* 2^64 nanoseconds in minutes, rounded up.
MaxDurationMinutes == 153722867
WrapSpanMinutes == 307445735

\* time.Duration(amount) * unit, a 64-bit product of nanoseconds that wraps
\* around, as the minute it falls in (for products below 2^64 nanoseconds).
Duration(amount, unitMinutes) ==
    IF amount * unitMinutes > MaxDurationMinutes
    THEN amount * unitMinutes - WrapSpanMinutes
    ELSE amount * unitMinutes

\* strings.ToLower(strings.TrimSuffix(unit, "s"))
UnitOf(x) ==
    CASE x \in {"minute", "minutes"} -> "minute"
      [] x \in {"hour", "hours"} -> "hour"
      [] x \in {"day", "days"} -> "day"
      [] x \in {"week", "weeks"} -> "week"
      [] x \in {"month", "months"} -> "month"
      [] OTHER -> x

\* parseRelativeTime
parseRelativeTime(input, nowT) ==
    LET parts == TrimSpace(input)
        amount == Atoi(parts[1])
        unit == UnitOf(parts[2])
    IN IF Len(parts) < 2 \/ amount.err THEN [err |-> TRUE, t |-> ZeroTime]
       ELSE CASE unit = "minute" -> [err |-> FALSE, t |-> nowT + Duration(amount.val, 1)]
              [] unit = "hour" -> [err |-> FALSE, t |-> nowT + Duration(amount.val, 60)]
              [] unit = "day" -> [err |-> FALSE, t |-> AddDate(nowT, 0, amount.val)]
              [] unit = "week" -> [err |-> FALSE, t |-> AddDate(nowT, 0, amount.val * 7)]
              [] unit = "month" -> [err |-> FALSE, t |-> AddDate(nowT, amount.val, 0)]
              [] OTHER -> [err |-> TRUE, t |-> ZeroTime]

\* parseTomorrowTime
parseTomorrowTime(timeStr, nowT) ==
    LET tomorrow == AddDate(nowT, 0, 1)
        t == parseTimeOfDay(TrimSpace(timeStr), nowT)
    IN IF t.err THEN [err |-> TRUE, t |-> ZeroTime]
       ELSE [err |-> FALSE,
             t |-> Date(Year(tomorrow), Month(tomorrow), Day(tomorrow), Clock(t.t))]

\* parseAbsoluteTime, on the inputs of the model: a time of day is today's,
\* a date with a time is that instant.
parseAbsoluteTime(input, nowT) ==
    CASE input = <<"2024-03-20", "15:00">> -> [err |-> FALSE, t |-> Date(2024, 3, 20, 900)]
      [] input = <<"15:04">> ->
            [err |-> FALSE, t |-> Date(Year(nowT), Month(nowT), Day(nowT), 904)]
      [] input = <<"3pm">> ->
            [err |-> FALSE, t |-> Date(Year(nowT), Month(nowT), Day(nowT), 900)]
      [] OTHER -> [err |-> TRUE, t |-> ZeroTime]

\* ParseTimeExpression
ParseTimeExpression(input, nowT) ==
    LET low == ToLower(TrimSpace(input))
    IN IF low # <<>> /\ low[1] = "every" THEN [err |-> TRUE, t |-> ZeroTime]
       ELSE IF low # <<>> /\ low[1] = "in" THEN parseRelativeTime(Tail(low), nowT)
       ELSE IF low # <<>> /\ low[1] = "tomorrow"
       THEN parseTomorrowTime(IF Len(low) >= 2 /\ low[2] = "at"
                              THEN SubSeq(low, 3, Len(low)) ELSE Tail(low), nowT)
       ELSE parseAbsoluteTime(low, nowT)

\* ParseCommand: the suffix -call is looked for before white space is
\* trimmed; the time and the message are separated by the first " to ", or
\* else the first " that ".
ParseCommand(input, nowT) ==
    LET isPriority == input # <<>> /\ input[Len(input)] = "-call"
        rest == IF isPriority
                THEN SubSeq(TrimSpace(input), 1, Len(TrimSpace(input)) - 1)
                ELSE input
        byTo == SplitN2(rest, "to")
        parts == IF Len(byTo) = 2 THEN byTo ELSE SplitN2(rest, "that")
        due == ParseTimeExpression(TrimSpace(parts[1]), nowT)
    IN IF Len(parts) # 2 \/ due.err
       THEN [err |-> TRUE, t |-> ZeroTime, title |-> <<>>, priority |-> FALSE]
       ELSE [err |-> FALSE, t |-> due.t, title |-> TrimSpace(parts[2]),
             priority |-> isPriority]

\* The relative expressions: every unit, singular and plural, with small
\* amounts, and amounts at and beyond the range of the integers involved.
RelativeUnits ==
    {"minute", "minutes", "hour", "hours", "day", "days", "week", "weeks", "month", "months"}

TimeExpressions ==
    {<<"in", n, u>> : n \in {"0", "1", "2", "45"}, u \in RelativeUnits}
    \cup {<<"in", "-5", u>> : u \in {"minutes", "hours", "days"}}
    \cup {<<"in", "153722867", "minutes">>, <<"in", "153722868", "minutes">>,
          <<"in", "2562048", "hours">>, <<"in", "99999999999999999999", "minutes">>,
          <<"in", "two", "hours">>, <<"in", "2", "fortnights">>, <<"in", "2">>}

\* The commands: the examples of the usage text and of the spec, with and
\* without the marker -call, with white space after it, and ones that fail.
CommandInputs ==
    {<<"in", "2", "hours", "to", "check", "email">>,
     <<"tomorrow", "at", "3pm", "to", "call", "mom", "-call">>,
     <<"tomorrow", "at", "3pm", "to", "call", "mom", "-call", " ">>,
     <<"tomorrow", "at", "3pm", "to", "call", "mom">>,
     <<"2024-03-20", "15:00", "to", "submit", "report">>,
     <<"in", "1", "day", "that", "it", "rains", "-call">>,
     <<"in", "2", "hours", "check", "email", "-call">>,
     <<"soon", "to", "call", "mom", "-call">>,
     <<"every", "day", "to", "call", "mom", "-call">>}

\* The schedules: each form validateSchedule knows, in lower case and
\* capitalised, day lists with a word that is no day, and texts that are
\* none of the forms or go on after one.
Schedules ==
    {<<"day">>, <<"daily">>, <<"weekday">>, <<"weekdays">>, <<>>,
     <<"sunday">>, <<"Friday">>, <<"funday">>,
     <<"Monday", "and", "Wednesday">>, <<"monday", "and", "funday">>,
     <<"sunday", "and", "monday", "and", "friday">>, <<"monday", "and">>,
     <<"monday", "friday">>,
     <<"month", "on", "the", "first">>, <<"month", "on", "the", "last">>,
     <<"month", "on", "the", "15", "th">>, <<"month", "on", "the", "1", "st">>,
     <<"month", "on", "the", "15">>, <<"month", "on", "the", "second">>,
     <<"month">>, <<"monthly">>, <<"month", "on", "first">>,
     <<"month", "on", "the", "first", "monday">>,
     <<"month", "on", "the", "15", "th", "and", "the", "last">>}

ParseNows == {d * MinutesPerDay + c : d \in {0, 30, 59, 365}, c \in {600, 1410}}

InitParse ==
    /\ now \in ParseNows
    /\ tickDue = FALSE
    /\ reminders = <<>>
    /\ nextID = 1
    /\ userCalls = 0
    /\ logs = EmptyBag
    /\ batch = <<>>
    /\ escalations = EmptyBag
    /\ delivered = [i \in IDs |-> 0]
    /\ calls = [i \in IDs |-> 0]
    /\ lastStep = NoStep
    /\ calc \in {[NoCalc EXCEPT !.phase = "expression", !.command = c] : c \in TimeExpressions}
            \cup {[NoCalc EXCEPT !.phase = "command", !.command = c] : c \in CommandInputs}
            \cup {[NoCalc EXCEPT !.phase = "schedule", !.command = c] : c \in Schedules}
    /\ inflight = NoCalls
    /\ listed = NoList
    /\ shutdown = Started
    /\ itemStore = NoItems

\* A call of ParseTimeExpression.
CallParseTimeExpression ==
    /\ calc.phase = "expression"
    /\ LET e == ParseTimeExpression(calc.command, now)
       IN calc' = [calc EXCEPT !.phase = "evaluated", !.err = e.err, !.next = e.t]
    /\ UNCHANGED <<now, tickDue, reminders, nextID, userCalls, logs, batch,
                   escalations, delivered, calls, lastStep, inflight, listed, shutdown, itemStore>>

\* A call of ParseCommand.
CallParseCommand ==
    /\ calc.phase = "command"
    /\ LET c == ParseCommand(calc.command, now)
       IN calc' = [calc EXCEPT !.phase = "parsed", !.err = c.err, !.next = c.t,
                               !.title = c.title, !.priority = c.priority]
    /\ UNCHANGED <<now, tickDue, reminders, nextID, userCalls, logs, batch,
                   escalations, delivered, calls, lastStep, inflight, listed, shutdown, itemStore>>

\* A call of validateSchedule.
CallValidateSchedule ==
    /\ calc.phase = "schedule"
    /\ LET v == validateSchedule(calc.command)
       IN calc' = [calc EXCEPT !.phase = "validated", !.err = v.err, !.pattern = v.pattern]
    /\ UNCHANGED <<now, tickDue, reminders, nextID, userCalls, logs, batch,
                   escalations, delivered, calls, lastStep, inflight, listed, shutdown, itemStore>>

NextParse == CallParseTimeExpression \/ CallParseCommand \/ CallValidateSchedule

SpecParse == InitParse /\ [][NextParse]_vars

(***************************************************************************)
(* Properties.                                                             *)
(***************************************************************************)
\* The ids of the rows of the tick's snapshot still to be handled.
BatchIDs == {batch[i].id : i \in 1..Len(batch)}

IsPending(id) == id \in DOMAIN reminders /\ reminders[id].status = StatusPending

\* C1: a reminder created by /remindme (its userID the decimal string of the
\* sender's id, status Pending) whose due time has passed is eventually sent
\* its primary notification and leaves Pending, when the scheduler keeps
\* ticking and neither the store nor the notifier fails.
C1_DueReminderEventuallySent ==
    \A id \in IDs :
        (/\ IsPending(id)
         /\ parseUserID(reminders[id].userID).ok
         /\ reminders[id].dueTime <= now)
        ~> (delivered[id] >= 1 /\ ~IsPending(id))

\* C2: the rows a tick's query hands to the loop are exactly the stored
\* reminders, of every user, that are Pending and due by now + 1 minute.
C2_QueryCoversEveryUser ==
    lastStep.op = "Query" =>
        BatchIDs = {id \in DOMAIN reminders :
                        /\ reminders[id].status = StatusPending
                        /\ reminders[id].dueTime <= now + TickLookahead}

C4_StatusOneWay ==
    [][\A id \in DOMAIN reminders \cap DOMAIN reminders' :
          reminders'[id].status # reminders[id].status =>
              /\ reminders[id].status = StatusPending
              /\ reminders'[id].status \in {StatusCompleted, StatusCancelled}]_vars

\* C5: Create and Update refuse, and leave the store as it is, when the title
\* is empty, the due time is zero or the due time is not strictly after the
\* current time: a step that stores a new row, or a new title or due time
\* for a row, stores a title that is not empty and a due time after now.
C5_RejectsDueNotAfterNow ==
    [][\A id \in DOMAIN reminders' :
          (\/ id \notin DOMAIN reminders
           \/ reminders'[id].title # reminders[id].title
           \/ reminders'[id].dueTime # reminders[id].dueTime) =>
              /\ reminders'[id].title # ""
              /\ ~IsZero(reminders'[id].dueTime)
              /\ reminders'[id].dueTime > now]_vars

\* The latest step was the loop's handling of a row whose send failed.
SendFailed(step) == step.op = "Process" /\ step.send \in {"baduser", "fail"}

\* C6: when the primary send for a due reminder fails (the notifier's error
\* or a userID that does not parse), that iteration changes nothing: the
\* reminder is neither completed nor given a successor, nothing is logged
\* and no escalation is started; the row is not handled a second time in the
\* tick; a reminder that was Pending is still Pending and is selected by the
\* query of the next tick.
C6_FailedSendLeavesPending ==
    /\ [](SendFailed(lastStep) =>
            /\ lastStep.rec = "none"
            /\ lastStep.id \notin BatchIDs
            /\ lastStep.pre = StatusPending =>
                  /\ IsPending(lastStep.id)
                  /\ LET again == ListReminders(reminders, <<>>, TickFilter(now + 1))
                     IN \E i \in 1..Len(again) : again[i].id = lastStep.id)
    /\ [][SendFailed(lastStep') =>
            /\ reminders' = reminders
            /\ nextID' = nextID
            /\ delivered' = delivered
            /\ logs' = logs
            /\ escalations' = escalations]_vars

\* C6: the send for a stored Pending reminder failed on its userID.
C6_Witness ==
    /\ lastStep.op = "Process"
    /\ lastStep.send = "baduser"
    /\ lastStep.pre = StatusPending

\* The latest step delivered the notification of a recurring reminder and
\* could not compute its next occurrence.
CalcFailed(step) == step.op = "Process" /\ step.send = "ok" /\ step.rec = "calcErr"

CallLogs(lg, id) ==
    CopiesIn([reminderID |-> id, notificationType |-> NotificationTelegramCall,
              status |-> "success"], lg)

C10_NextNotBeforeNow ==
    (calc.phase = "done" /\ calc.pattern \in SupportedPatterns) =>
        ~calc.err /\ ~Before(calc.next, calc.now)

\* The weekdays a weekly pattern of the model names.
ConfiguredWeekdays(pattern) ==
    CASE pattern = <<"weekly", ":", "monday">> -> {Monday}
      [] pattern = <<"weekly", ":", "Friday">> -> {Friday}
      [] pattern = <<"weekly", ":", "tuesday", ",", "saturday">> -> {Tuesday, Saturday}
      [] pattern = <<"weekly", ":", "sunday">> -> {Sunday}
      [] pattern = <<"weekly", ":", "monday", ",", "wednesday">> -> {Monday, Wednesday}
      [] OTHER -> {}

\* The day number N a monthly:<N> pattern of the model names, clamped to
\* 1..28.
ClampedDayNumber(pattern) ==
    CASE pattern = <<"monthly", ":", "0">> -> 1
      [] pattern = <<"monthly", ":", "1">> -> 1
      [] pattern = <<"monthly", ":", "15", "th">> -> 15
      [] OTHER -> 28

MonthlyDayNumberPatterns ==
    {p \in SupportedPatterns \cup DayNumberPatterns :
        p[1] = "monthly" /\ p[3] \notin {"first", "last"}}

\* C11: the next occurrence satisfies the day constraint of its pattern:
\* weekday gives Monday to Friday, weekly:<days> one of the days named,
\* monthly:first day 1, monthly:last the last day of its month and
\* monthly:<N> the day N clamped to 1..28.
C11_DayConstraintHolds ==
    calc.phase = "done" =>
        /\ calc.pattern = <<"weekday">> =>
              Weekday(calc.next) \in {Monday, Tuesday, Wednesday, Thursday, Friday}
        /\ calc.pattern[1] = "weekly" /\ calc.pattern \in SupportedPatterns =>
              Weekday(calc.next) \in ConfiguredWeekdays(calc.pattern)
        /\ calc.pattern = <<"monthly", ":", "first">> => Day(calc.next) = 1
        /\ calc.pattern = <<"monthly", ":", "last">> =>
              Day(calc.next) = DaysIn(Year(calc.next), Month(calc.next))
        /\ calc.pattern \in MonthlyDayNumberPatterns =>
              Day(calc.next) = ClampedDayNumber(calc.pattern)

\* The first of the month after the month of t, at 00:00.
FollowingMonthStart(t) == Date(Year(t), Month(t) + 1, 1, 0)

\* C12: for a monthly pattern, when the current time is not later than the
\* result and still in the month of base, the next occurrence lies in the
\* calendar month right after the month of base, whatever the day of base.
C12_MonthlyInFollowingMonth ==
    (/\ calc.phase = "done"
     /\ calc.pattern \in SupportedPatterns
     /\ calc.pattern[1] = "monthly"
     /\ calc.now <= calc.next
     /\ calc.now < FollowingMonthStart(calc.base))
    => /\ FollowingMonthStart(calc.base) <= calc.next
       /\ calc.next < FollowingMonthStart(FollowingMonthStart(calc.base))

\* C13: for monthly:<N> with any number N the day of the month of the next
\* occurrence is N clamped to 1..28.
C13_DayNumberClamped ==
    (calc.phase = "done" /\ calc.pattern \in MonthlyDayNumberPatterns) =>
        /\ ~calc.err
        /\ Day(calc.next) = ClampedDayNumber(calc.pattern)

\* The day constraint of a pattern, on the day of the instant t.
SatisfiesDayConstraint(pattern, t) ==
    CASE pattern = <<"daily">> -> TRUE
      [] pattern = <<"weekday">> -> Weekday(t) \in {Monday, Tuesday, Wednesday, Thursday, Friday}
      [] pattern[1] = "weekly" -> Weekday(t) \in ConfiguredWeekdays(pattern)
      [] pattern = <<"monthly", ":", "first">> -> Day(t) = 1
      [] pattern = <<"monthly", ":", "last">> -> Day(t) = DaysIn(Year(t), Month(t))
      [] OTHER -> Day(t) = ClampedDayNumber(pattern)

\* The earliest instant not before nowT, at the time of day clock, whose day
\* satisfies the day constraint of the pattern.
EarliestMatching(pattern, clock, nowT) ==
    LET cand == {t \in {d * MinutesPerDay + clock : d \in DayIndex(nowT)..(DayIndex(nowT) + 31)} :
                    t >= nowT /\ SatisfiesDayConstraint(pattern, t)}
    IN CHOOSE t \in cand : \A u \in cand : t <= u

SundayCommand == <<"every", "Sunday", "at", "10am", "to", "water", "plants">>

\* C14: the first due time of a recurring reminder created from a command is
\* the earliest instant not before now that satisfies the day constraint of
\* its pattern at the time of day of the command; for every Sunday at 10am it
\* is a Sunday at 10:00.
C14_FirstDueIsEarliestMatching ==
    calc.phase = "created" =>
        /\ reminders[1].dueTime =
               EarliestMatching(calc.pattern, Clock(reminders[1].dueTime), now)
        /\ calc.command = SundayCommand =>
               Weekday(reminders[1].dueTime) = Sunday /\ Clock(reminders[1].dueTime) = 600

MonthlyWithoutTime ==
    {c \in Commands : c[2] = "month" /\ \A i \in 1..Len(c) : c[i] # "at"}

MonthlyPatternOf(c) ==
    IF c[6] = "to" THEN <<"monthly", ":", c[5]>> ELSE <<"monthly", ":", c[5], c[6]>>

\* C15: a monthly command without a time clause is accepted, with the
\* pattern monthly:<first|last|Nth>, and is not refused as a format error.
C15_MonthlyWithoutTimeAccepted ==
    (calc.phase # "command" /\ calc.command \in MonthlyWithoutTime) =>
        /\ calc.phase # "refused"
        /\ calc.pattern = MonthlyPatternOf(calc.command)

StatusCalls == {"Complete", "Cancel"}

\* The step is the write of caller c's Complete or Cancel.
Writes(c) == inflight[c].pc = "read" /\ inflight'[c].pc = "done"

\* C17: two concurrent calls among Complete and Cancel of the same existing
\* reminder both succeed under every interleaving of their reads and writes,
\* and after each write the stored status is the one that write set, so the
\* final status is that of the call that wrote last.
C17_LastWriteWins ==
    [][\A c \in Callers, d \in Callers :
          (/\ c # d
           /\ Writes(c)
           /\ inflight[d].op \in StatusCalls
           /\ inflight[d].id = inflight[c].id
           /\ inflight[d].row # <<>>)
          => /\ inflight'[c].res = "ok"
             /\ inflight[d].pc = "done" => inflight[d].res = "ok"
             /\ reminders'[inflight[c].id].status = StatusSetBy(inflight[c].op)]_vars

\* Complete and Cancel of reminder 1 both read it Pending, both returned
\* success, and Complete wrote last.
C17_Witness ==
    /\ inflight[1] = Call("Complete", 1, "done", inflight[1].row, "ok")
    /\ inflight[2] = Call("Cancel", 1, "done", inflight[2].row, "ok")
    /\ inflight[1].row # <<>> /\ inflight[1].row[1].status = StatusPending
    /\ inflight[2].row # <<>> /\ inflight[2].row[1].status = StatusPending
    /\ StatusOf(reminders, 1) = StatusCompleted

\* The step is the return of caller c's call.
Returns(c) == inflight[c].pc # "done" /\ inflight'[c].pc = "done"

\* C18: Complete, Cancel, Delete and Update with valid input, of an id that
\* is not in the store when the call looks for it, return not-found and
\* change no reminder and no log entry; so does the write of a Complete or
\* Cancel whose reminder was deleted after the call read it.
C18_AbsentIsNotFound ==
    [][\A c \in Callers :
          (/\ Returns(c)
           /\ inflight'[c].id \notin DOMAIN reminders
           /\ inflight'[c].res # "invalid")
          => /\ inflight'[c].res = "notfound"
             /\ reminders' = reminders
             /\ logs' = logs]_vars

\* A Complete read its reminder, the reminder was deleted, and the
\* Complete's write returned not-found.
C18_Witness ==
    \E c \in Callers, d \in Callers :
        /\ inflight[c].op = "Complete" /\ inflight[c].row # <<>>
        /\ inflight[c].pc = "done" /\ inflight[c].res = "notfound"
        /\ inflight[d] = Call("Delete", inflight[c].id, "done", <<>>, "ok")

\* C19: Complete of a reminder that is already Completed succeeds and leaves
\* the stored reminder as it is (updatedAt is not part of the model).
C19_CompleteIdempotent ==
    [][\A c \in Callers :
          (/\ Writes(c)
           /\ inflight[c].op = "Complete"
           /\ inflight[c].row[1].status = StatusCompleted
           /\ GetRow(reminders, inflight[c].id) = inflight[c].row)
          => /\ inflight'[c].res = "ok"
             /\ reminders' = reminders]_vars

\* Complete; Complete: the second call read the reminder Completed by the
\* first and returned success.
C19_Witness ==
    \E c \in Callers, d \in Callers :
        /\ inflight[c].op = "Complete" /\ inflight[c].pc = "done" /\ inflight[c].res = "ok"
        /\ inflight[c].row # <<>> /\ inflight[c].row[1].status = StatusPending
        /\ inflight[d] = Call("Complete", inflight[c].id, "done", inflight[d].row, "ok")
        /\ inflight[d].row # <<>> /\ inflight[d].row[1].status = StatusCompleted
        /\ StatusOf(reminders, inflight[c].id) = StatusCompleted

\* The ids of the stored reminders of the user that satisfy every condition
\* of the filter that is set.
Selected(rs, userID, f) ==
    {i \in DOMAIN rs :
        /\ rs[i].userID = userID
        /\ f.hasStatus => rs[i].status = f.status
        /\ f.hasPriority => rs[i].priority = f.priority
        /\ f.hasFrom => f.fromTime <= rs[i].dueTime
        /\ f.hasTo => rs[i].dueTime <= f.toTime}

\* C20: List returns exactly the stored reminders of the user that satisfy
\* every condition of the filter that is set, with both due-time bounds
\* inclusive, each once and as stored, in ascending order of due time.
C20_ListExactAndOrdered ==
    [][listed' # listed =>
          LET rows == listed'.rows
          IN /\ {rows[i].id : i \in 1..Len(rows)} =
                    Selected(reminders, listed'.userID, listed'.filter)
             /\ Len(rows) = Cardinality(Selected(reminders, listed'.userID, listed'.filter))
             /\ \A i \in 1..Len(rows) : rows[i] = reminders[rows[i].id]
             /\ \A i \in 1..Len(rows), j \in 1..Len(rows) :
                    i < j => rows[i].dueTime <= rows[j].dueTime]_vars

\* A list with an upper bound returned the reminder created second before
\* the one created first, whose due time is the bound.
C20_Witness ==
    /\ listed.asked /\ listed.filter.hasTo /\ listed.filter.hasStatus
    /\ Len(listed.rows) = 2
    /\ listed.rows[1].id = 2 /\ listed.rows[2].id = 1
    /\ listed.rows[1].dueTime < listed.rows[2].dueTime
    /\ listed.rows[2].dueTime = listed.filter.toTime

Handled(i) == lastStep.op = "Process" /\ lastStep.id = i

UnitMinutes(u) ==
    CASE u = "minute" -> 1 [] u = "hour" -> 60 [] u = "day" -> 1440 [] u = "week" -> 10080

\* The expressions in N <unit> with an integer N and one of the five units.
ValidRelative ==
    {e \in TimeExpressions : Len(e) = 3 /\ e[3] \in RelativeUnits
                             /\ e[2] \notin {"two"}}

\* The numerals of the model that the model's numbers can hold, and the
\* integer such a numeral denotes.
SmallNumerals == {"-5", "0", "1", "2", "45", "2562048", "153722867", "153722868"}

Amount(x) ==
    CASE x = "-5" -> -5 [] x = "0" -> 0 [] x = "1" -> 1 [] x = "2" -> 2 [] x = "45" -> 45
      [] x = "2562048" -> 2562048 [] x = "153722867" -> 153722867
      [] x = "153722868" -> 153722868

\* C24: in N <unit> yields now + N * unit for every integer N and each of the
\* five units, singular or plural (a month counts 28 to 31 days); and the
\* command in 2 hours to check email at 10:00 yields 12:00 of the day, the
\* title check email and no priority.
C24_RelativeIsNowPlus ==
    /\ (calc.phase = "evaluated" /\ calc.command \in ValidRelative) =>
          /\ ~calc.err
          /\ calc.command[2] \in SmallNumerals =>
                LET n == Amount(calc.command[2])
                    u == UnitOf(calc.command[3])
                IN IF u = "month"
                   THEN /\ now + n * 28 * 1440 <= calc.next
                        /\ calc.next <= now + n * 31 * 1440
                   ELSE calc.next = now + n * UnitMinutes(u)
    /\ (calc.phase = "parsed" /\ Clock(now) = 600
          /\ calc.command = <<"in", "2", "hours", "to", "check", "email">>) =>
          /\ ~calc.err
          /\ calc.next = DayIndex(now) * MinutesPerDay + 720
          /\ calc.title = <<"check", "email">>
          /\ ~calc.priority

\* The input ends with the marker -call, white space after it aside.
CarriesMarker(input) ==
    \E i \in 1..Len(input) :
        input[i] = "-call" /\ \A j \in (i + 1)..Len(input) : input[j] = " "

IsMessageWord(x) == x \notin {"-call", " "}

\* The words of the message of a command of the model: what follows the
\* first to (or that), without the marker and white space at the ends.
MessageOf(input) ==
    LET byTo == SplitN2(input, "to")
        parts == IF Len(byTo) = 2 THEN byTo ELSE SplitN2(input, "that")
    IN SelectSeq(parts[2], IsMessageWord)

\* C25: ParseCommand reports priority exactly when the input ends with the
\* marker -call, also with white space after it, and the title is then the
\* message without the marker and surrounding white space; when it fails it
\* reports no priority, no due time and no title.
C25_PriorityIffMarker ==
    calc.phase = "parsed" =>
        IF calc.err
        THEN ~calc.priority /\ calc.next = ZeroTime /\ calc.title = <<>>
        ELSE /\ calc.priority <=> CarriesMarker(calc.command)
             /\ calc.title = MessageOf(calc.command)

\* The schedule is a list of weekday names, in any case, joined by and.
IsDayList(sch) ==
    /\ Len(sch) % 2 = 1
    /\ \A i \in 1..Len(sch) :
          IF i % 2 = 1 THEN ToLowerLex(sch[i]) \in ValidDays ELSE sch[i] = "and"

\* weekly:<the names in lower case, comma-joined in the order of the input>
WeeklyOf(sch) ==
    <<"weekly", ":">> \o [i \in 1..Len(sch) |-> IF i % 2 = 1 THEN ToLowerLex(sch[i]) ELSE ","]

\* The schedule is month on the first, last or Nth, and nothing else.
IsMonthOnThe(sch) ==
    /\ Len(sch) \in {4, 5}
    /\ SubSeq(sch, 1, 3) = <<"month", "on", "the">>
    /\ Len(sch) = 4 => sch[4] \in {"first", "last"}
    /\ Len(sch) = 5 => sch[4] \in Numerals /\ sch[5] \in {"st", "nd", "rd", "th"}

\* C26: validateSchedule maps day and daily to daily, weekday to weekday, a
\* list of weekday names joined by and to weekly:<names>, month on the
\* first|last|Nth to monthly:<first|last|Nth>, and refuses every other text
\* without a pattern.
C26_ScheduleForms ==
    calc.phase = "validated" =>
        LET sch == calc.command
        IN CASE sch \in {<<"day">>, <<"daily">>} -> ~calc.err /\ calc.pattern = <<"daily">>
             [] sch = <<"weekday">> -> ~calc.err /\ calc.pattern = <<"weekday">>
             [] IsDayList(sch) -> ~calc.err /\ calc.pattern = WeeklyOf(sch)
             [] IsMonthOnThe(sch) ->
                    ~calc.err /\ calc.pattern = <<"monthly", ":">> \o SubSeq(sch, 4, Len(sch))
             [] OTHER -> calc.err /\ calc.pattern = NoPattern

\* C27: for every supported pattern the next occurrence has the hour and
\* the minute of the base due time, whatever now is.
C27_AnchorTimeOfDayKept ==
    (calc.phase = "done" /\ calc.pattern \in SupportedPatterns \cup DayNumberPatterns) =>
        ~calc.err /\ Clock(calc.next) = Clock(calc.base)

\* A daily occurrence computed more than two days after its base, at another
\* time of day than the base's.
C27_Witness ==
    /\ calc.phase = "done" /\ calc.pattern = <<"daily">>
    /\ calc.now > calc.base + 2 * MinutesPerDay
    /\ Clock(calc.now) # Clock(calc.base)
    /\ calc.next >= calc.now
    /\ Clock(calc.next) = Clock(calc.base)


(***************************************************************************)
(* C28.  Notification logs are tied to their reminder: a log row leaves    *)
(* the table only with its reminder, so once Delete(id) has succeeded      *)
(* GetNotificationLogs(id) is empty and every row of reminder_logs names   *)
(* a reminder that exists.  The schema declares ON DELETE CASCADE, but the *)
(* connection is opened without enabling foreign keys and DeleteReminder   *)
(* deletes from reminders only, so the rows of a deleted reminder stay.    *)
(***************************************************************************)
GetNotificationLogs(lg, id) == {l \in BagToSet(lg) : l.reminderID = id}

IsNumericID(u) == Len(u) = 1 /\ u[1] \in Numerals

C30_DayLabelFollowsDate ==
    (calc.phase = "converted" /\ ~calc.err) =>
        calc.dayDiff = IF DayIndex(calc.targetTime) > DayIndex(calc.sourceTime)
                       THEN " next day"
                       ELSE IF DayIndex(calc.targetTime) < DayIndex(calc.sourceTime)
                            THEN " previous day"
                            ELSE ""


(***************************************************************************)
(* C31.  ConvertTimeZonesWithTools returns an error exactly when the time  *)
(* string is in neither the 12-hour nor the 24-hour form, or one of the    *)
(* two zones is neither a valid IANA zone name as the caller wrote it nor  *)
(* a known city name; otherwise it returns a result and no error.  The     *)
(* zone arguments are put in lower case before they are looked up, so an   *)
(* IANA name is found only where the zone database ignores case, and the   *)
(* empty string, which is no zone name, is taken to be UTC.                *)
(***************************************************************************)
ValidTimeString(timeStr) ==
    timeStr \in {"12:30 AM", "8:00 AM", "2:00 PM", "14:00", "8:00 PM", "23:30"}

ValidZoneName(zone) ==
    zone \in {"America/New_York", "Europe/London", "Asia/Tokyo", "UTC", "New York"}

C31_ErrorIffInvalidInput ==
    calc.phase = "converted" =>
        (calc.err <=> \/ ~ValidTimeString(calc.timeStr)
                      \/ ~ValidZoneName(calc.fromZone)
                      \/ ~ValidZoneName(calc.toZone))


(***************************************************************************)
(* C32.  In one chat, /pull then /delete then /undo within one hour leaves *)
(* the tables items and deleted with the multisets of texts they had       *)
(* before the /delete, also when several rows share a text; /undo with     *)
(* nothing deleted, or more than an hour after the deletion, changes       *)
(* neither table.  /delete removes every row of items with the text and    *)
(* /undo every row of deleted with it, while each inserts one row.         *)
(***************************************************************************)
C32_DeleteUndoRoundTrip ==
    /\ [](itemStore.round = "undone" =>
            /\ itemStore.items = itemStore.atDelete[1].items
            /\ itemStore.deleted = itemStore.atDelete[1].deleted)
    /\ [][itemStore'.reply \in {"Nothing to undo", "Can't undo deletions older than 1 hour"}
            => /\ itemStore'.items = itemStore.items
               /\ itemStore'.deleted = itemStore.deleted]_vars


PendingOfChain(title) ==
    {i \in DOMAIN reminders : /\ reminders[i].title = title
                              /\ reminders[i].status = StatusPending}

C37_NextAfterBase ==
    (calc.phase = "done" /\ calc.pattern \in SupportedPatterns \cup DayNumberPatterns) =>
        ~calc.err /\ calc.next > calc.base

\* C37: now lies before the base, the base on the last day of a month, and
\* the pattern pins the first day of a month.
C37_Witness ==
    /\ calc.phase = "done"
    /\ calc.pattern = <<"monthly", ":", "first">>
    /\ calc.now < calc.base
    /\ Day(calc.base) = 31
    /\ Day(calc.next) = 1
    /\ calc.next > calc.base


(***************************************************************************)
(* C38.  Complete(id) and Cancel(id) change only the status of the stored  *)
(* record: every other field keeps the value it had in the store just      *)
(* before the call's write, also when an Update of the same reminder falls *)
(* between the call's read and its write.  The write stores every column   *)
(* of the row the call read, so it puts back the title and the due time    *)
(* the Update had replaced.                                                *)
(***************************************************************************)
C38_StatusCallsChangeStatusOnly ==
    [][\A c \in Callers :
          (Writes(c) /\ inflight'[c].res = "ok")
          => reminders'[inflight[c].id] =
                [reminders[inflight[c].id] EXCEPT !.status = StatusSetBy(inflight[c].op)]]_vars


(***************************************************************************)
(* C39.  The computation of the next occurrence terminates for every       *)
(* pattern, every base and every now: also for weekly patterns whose day   *)
(* list is empty or holds names that are no weekdays (such a name counts   *)
(* as Sunday), and for unknown kinds of pattern, which end with an error   *)
(* without entering a loop.  The number of iterations stays below the      *)
(* model's cap, so the cap ends no computation.                            *)
(***************************************************************************)
C39_CalculationTerminates ==
    /\ <>(calc.phase = "done")
    /\ [](calc.steps < MaxLoopSteps)
    /\ [](calc.phase = "done" =>
            /\ Refused(calc.pattern) <=> calc.err
            /\ Refused(calc.pattern) => calc.steps = 0)

\* C39: a weekly pattern with an empty day list ended on a Sunday after
\* some iterations.
C39_Witness ==
    /\ calc.phase = "done"
    /\ calc.pattern = <<"weekly", ":">>
    /\ ~calc.err
    /\ calc.steps > 0
    /\ Weekday(calc.next) = Sunday


============================================================================
